---- MODULE Spec2Model ----
(***************************************************************************)
(* Interrupt pipeline (I-pipe) core of arch/arm/kernel/ipipe.c.            *)
(*                                                                         *)
(* Three specifications share the variables below:                         *)
(*   Spec      one CPU, the domain pipeline: stall flags, pending logs,    *)
(*             dispatch of raised interrupts;                              *)
(*   SpecVnmi  the virtual-NMI broadcast of __ipipe_send_vnmi and          *)
(*             __ipipe_do_vnmi on several CPUs;                            *)
(*   SpecCrit  the critical rendezvous around __ipipe_enable_pipeline.     *)
(* The dispatch engine, the stage synchronisation and the critical         *)
(* rendezvous live in kernel/ipipe/core.c; they are modelled from the      *)
(* design document, the rest from arch/arm/kernel/ipipe.c.                 *)
(***************************************************************************)
EXTENDS Integers, Sequences, FiniteSets

VARIABLES
    stalled,     \* [domain -> BOOLEAN]   IPIPE_STALL_FLAG of the CPU's domain status
    pend,        \* [domain -> Seq(irq)]  pending log of the CPU's domain
    control,     \* [domain -> [irq -> SUBSET flags]]  ipd->irqs[irq].control
    trace,       \* observable events of the pipeline CPU, in order
    hardirqs,    \* [cpu -> BOOLEAN]  TRUE: hardware interrupts enabled
    vnmi_lock,   \* __ipipe_vnmi.lock: holding CPU or NoCpu
    vnmi_data,   \* __ipipe_vnmi.data: CPU whose stack descriptor is published, or NoCpu
    data_lock,   \* __ipipe_vnmi.data_lock: [w |-> writer or NoCpu, r |-> readers]
    desc,        \* [cpu -> struct __ipipe_vnmidata on that CPU's stack (its cpumask)]
    spc,         \* [cpu -> position in __ipipe_send_vnmi]
    vpc,         \* [cpu -> position in __ipipe_do_vnmi]
    vdata,       \* [cpu -> local "data" of __ipipe_do_vnmi]
    flags,       \* [cpu -> hardware state saved by spin_trylock_irqsave]
    inirq,       \* [cpu -> BOOLEAN]  __ipipe_do_vnmi runs as the IPI's handler
    ipi,         \* [cpu -> BOOLEAN]  IPIPE_SERVICE_VNMI pending on the CPU
    req,         \* [cpu -> cpumask argument of the running __ipipe_send_vnmi]
    ran,         \* [sender -> [cpu -> number of runs of the sender's fn]]
    ncalls,      \* number of __ipipe_send_vnmi calls started so far
    online,      \* cpu_online_mask
    cpc,         \* [cpu -> position in the rendezvous / dispatch]
    sync_ipi,    \* [cpu -> BOOLEAN]  IPIPE_CRITICAL_IPI pending on the CPU
    ackcount,    \* rendezvous participant count
    generation,  \* rendezvous barrier generation counter
    mygen,       \* [cpu -> generation a waiter saw when it entered the spin]
    cflags,      \* [cpu -> "flags" of __ipipe_enable_pipeline]
    resume,      \* [cpu -> position the critical IPI interrupted]
    nextirq,     \* [cpu -> loop variable "irq" of __ipipe_enable_pipeline (index into RootIrqs)]
    opcount,     \* [cpu -> [irq -> number of ipipe_request_irq(root, irq) of its call]]
    nrdv,        \* number of rendezvous started so far
    rpc,         \* position of the root context of the pipeline CPU in its call
    rflags,      \* local "flags" of the running call
    rx,          \* local "x" of the running call (status word / bit read)
    rret,        \* <<value>> returned by the last call, <<>> if it returned none
    rirq,        \* argument "irq" of the running ipipe_raise_irq
    entry,       \* hardware interrupt state and root stall flag when the running call began
    irq_desc,    \* IRQ numbers that have a descriptor (irq_to_desc(irq) != NULL)
    pic_muter,   \* ipipe_pic_muter: which of its callbacks are registered
    chip_affinity, \* the interrupt chip has an irq_set_affinity primitive
    hwlog,       \* the last configuration call and the controller calls it made
    warned,      \* WARN_ON_ONCE sites that have fired
    upc,         \* position of the current task: user mode or inside __ipipe_syscall_root
    mayday,      \* PF_MAYDAY in current->ipipe.flags
    root_p,      \* __ipipe_root_p: the CPU runs in the root domain
    watched,     \* syscall numbers watched for the current task
    scno,        \* argument "scno" of the running __ipipe_syscall_root
    r7,          \* regs->ARM_r7
    orig_r7,     \* local "orig_r7"
    sret,        \* local "ret"
    nret,        \* value __ipipe_notify_syscall returned to the running call
    sysret,      \* value the last __ipipe_syscall_root returned
    glog,        \* notifications delivered since the task last left user mode
    sentry,      \* [cpu -> hardware interrupt state when its __ipipe_send_vnmi began]
    ipi_irqs,    \* [domain -> [internal IPI -> [ackfn, handler, cookie]]]  ipd->irqs[virq]
    hrtimer_irq, \* ipipe_percpu.hrtimer_irq of the pipeline CPU
    tick_regs,   \* ipipe_percpu.tick_regs: [cpsr_i, pc]
    mreq,        \* the handlers of the last interrupt taken raised PF_MAYDAY
    active_mm,   \* ipipe_percpu.active_mm
    tif_mmswitch,\* TIF_MMSWITCH_INT of the current thread
    mpc,         \* position inside __switch_mm_inner / deferred_switch_mm
    mfn,         \* which of the two functions is running
    mprev,       \* parameter "prev"
    mnext,       \* parameter "next"
    mrc,         \* local "rc"
    mflags       \* local "flags"

pipevars == <<stalled, pend, control, trace>>
vnmivars == <<vnmi_lock, vnmi_data, data_lock, desc, spc, vpc, vdata, flags,
              inirq, ipi, req, ran, ncalls>>
critvars == <<online, cpc, sync_ipi, ackcount, generation, mygen, cflags, resume,
              nextirq, opcount, nrdv>>
rootvars == <<rpc, rflags, rx, rret, rirq, entry>>
cfgvars == <<irq_desc, pic_muter, chip_affinity, hwlog, warned>>
sysvars == <<upc, mayday, root_p, watched, scno, r7, orig_r7, sret, nret, sysret, glog>>
tickvars == <<hrtimer_irq, tick_regs>>
mmvars == <<active_mm, tif_mmswitch, mpc, mfn, mprev, mnext, mrc, mflags>>
archvars == <<ipi_irqs, tickvars, mreq, mmvars>>
extvars == <<cfgvars, sysvars, sentry, archvars>>
vars == <<pipevars, hardirqs, vnmivars, critvars, rootvars, extvars>>

(***************************************************************************)
(* Bounds of the model.                                                    *)
(***************************************************************************)
MaxRaise == 2        \* interrupts raised on the pipeline CPU
MaxCalls == 2        \* __ipipe_send_vnmi calls
MaxRendezvous == 2   \* critical rendezvous started

NrCpus == 3
CPUs == 0 .. (NrCpus - 1)
NoCpu == NrCpus
\* The CPU of the single-CPU pipeline specification.
ThisCpu == CHOOSE c \in CPUs : \A o \in CPUs : c <= o

(***************************************************************************)
(* The pipeline: domains in priority order, highest first; root is last.   *)
(***************************************************************************)
Pipeline == <<"head", "root">>
Domains == {"head", "root"}
IRQs == {5, 7}

IPIPE_HANDLE_MASK == "HANDLE"
IPIPE_PASS_MASK == "PASS"
IPIPE_STICKY_MASK == "STICKY"
IPIPE_IRQF_NOACK == "NOACK"
ControlFlags == {IPIPE_HANDLE_MASK, IPIPE_PASS_MASK, IPIPE_STICKY_MASK}

Ev(e, d, i) == [ev |-> e, dom |-> d, irq |-> i]

\* Number of interrupts raised so far on the pipeline CPU.
NrRaised == Cardinality({k \in 1 .. Len(trace) : trace[k].ev = "raise"})

\* Pending log insertion: an IRQ already pending is not duplicated.
__ipipe_set_irq_pending(log, irq) ==
    IF \E k \in 1 .. Len(log) : log[k] = irq THEN log ELSE Append(log, irq)

\* The dispatch state machine, from domain Pipeline[k] downwards.
RECURSIVE __ipipe_walk_pipeline(_, _, _, _)
__ipipe_walk_pipeline(k, irq, pnd, tr) ==
    IF k > Len(Pipeline) THEN [pend |-> pnd, trace |-> tr]
    ELSE
      LET d == Pipeline[k]
          ctl == control[d][irq]
          logged == [pnd EXCEPT ![d] = __ipipe_set_irq_pending(@, irq)]
          handled == Append(tr, Ev("handler", d, irq))
      IN  IF stalled[d]
          THEN IF IPIPE_STICKY_MASK \in ctl
               THEN [pend |-> logged, trace |-> tr]
               ELSE __ipipe_walk_pipeline(k + 1, irq, logged, tr)
          ELSE IF IPIPE_HANDLE_MASK \in ctl
          THEN IF IPIPE_PASS_MASK \in ctl
               THEN __ipipe_walk_pipeline(k + 1, irq, pnd, handled)
               ELSE [pend |-> pnd, trace |-> handled]
          ELSE IF k = Len(Pipeline)
          THEN [pend |-> pnd, trace |-> Append(tr, Ev("spurious", d, irq))]
          ELSE IF IPIPE_PASS_MASK \in ctl
          THEN __ipipe_walk_pipeline(k + 1, irq, pnd, tr)
          ELSE [pend |-> logged, trace |-> tr]

\* __ipipe_dispatch_irq(irq, flags): acknowledge unless NOACK, then walk the
\* pipeline from its head.  Runs with hardware interrupts off.
__ipipe_dispatch_irq(irq, fl, pnd, tr) ==
    __ipipe_walk_pipeline(1, irq, pnd,
        IF IPIPE_IRQF_NOACK \in fl THEN tr ELSE Append(tr, Ev("ack", "-", irq)))

\* __ipipe_sync_stage for domain d: replay the pending log in FIFO order.
RECURSIVE __ipipe_sync_stage(_, _, _)
__ipipe_sync_stage(d, log, tr) ==
    IF log = <<>> THEN tr
    ELSE __ipipe_sync_stage(d, Tail(log),
            IF IPIPE_HANDLE_MASK \in control[d][Head(log)]
            THEN Append(tr, Ev("handler", d, Head(log)))
            ELSE tr)

(***************************************************************************)
(* Operations of the pipeline CPU.                                         *)
(***************************************************************************)
\* hard_local_irq_save / hard_local_irq_restore pair around body: the
\* hardware state on return is the saved one.
hard_local_irq_restore(saved) == hardirqs' = [hardirqs EXCEPT ![ThisCpu] = saved]

ipipe_raise_irq_lossy(irq) ==
    /\ NrRaised < MaxRaise
    /\ LET saved == hardirqs[ThisCpu]
           out == IF stalled[Pipeline[1]]
                  THEN [pend |-> pend, trace |-> Append(trace, Ev("raise", "-", irq))]
                  ELSE __ipipe_dispatch_irq(irq, {IPIPE_IRQF_NOACK}, pend,
                                            Append(trace, Ev("raise", "-", irq)))
       IN  /\ pend' = out.pend
           /\ trace' = out.trace
           /\ hard_local_irq_restore(saved)
    /\ UNCHANGED <<stalled, control>>

\* Variant that injects the interrupt at the root stage instead of the head.
ipipe_raise_irq_root(irq) ==
    /\ NrRaised < MaxRaise
    /\ LET saved == hardirqs[ThisCpu]
           out == __ipipe_walk_pipeline(Len(Pipeline), irq, pend,
                                        Append(trace, Ev("raise", "-", irq)))
       IN  /\ pend' = out.pend
           /\ trace' = out.trace
           /\ hard_local_irq_restore(saved)
    /\ UNCHANGED <<stalled, control>>

ipipe_raise_irq(irq) ==
    /\ NrRaised < MaxRaise
    /\ LET saved == hardirqs[ThisCpu]
           out == __ipipe_dispatch_irq(irq, {IPIPE_IRQF_NOACK}, pend,
                                       Append(trace, Ev("raise", "-", irq)))
       IN  /\ pend' = out.pend
           /\ trace' = out.trace
           /\ hard_local_irq_restore(saved)
    /\ UNCHANGED <<stalled, control>>

ipipe_stall_root ==
    /\ LET saved == hardirqs[ThisCpu]
       IN  /\ stalled' = [stalled EXCEPT !["root"] = TRUE]
           /\ hard_local_irq_restore(saved)
    /\ UNCHANGED <<pend, control, trace>>

ipipe_stall_head ==
    /\ stalled' = [stalled EXCEPT !["head"] = TRUE]
    /\ UNCHANGED <<pend, control, trace, hardirqs>>

unstall_and_sync(d) ==
    /\ stalled' = [stalled EXCEPT ![d] = FALSE]
    /\ trace' = __ipipe_sync_stage(d, pend[d], trace)
    /\ pend' = [pend EXCEPT ![d] = <<>>]
    /\ UNCHANGED <<control, hardirqs>>

\* The caller's context may run with hardware interrupts on or off.
hard_local_irq_toggle ==
    /\ hardirqs' = [hardirqs EXCEPT ![ThisCpu] = ~@]
    /\ UNCHANGED pipevars

(***************************************************************************)
(* Initial states.                                                         *)
(***************************************************************************)
RootControls == {{}, {IPIPE_HANDLE_MASK}}

InitPipeIdle ==
    /\ stalled = [d \in Domains |-> FALSE]
    /\ pend = [d \in Domains |-> <<>>]
    /\ trace = <<>>

InitVnmiIdle ==
    /\ vnmi_lock = NoCpu
    /\ vnmi_data = NoCpu
    /\ data_lock = [w |-> NoCpu, r |-> {}]
    /\ desc = [c \in CPUs |-> {}]
    /\ spc = [c \in CPUs |-> "idle"]
    /\ vpc = [c \in CPUs |-> "none"]
    /\ vdata = [c \in CPUs |-> NoCpu]
    /\ flags = [c \in CPUs |-> TRUE]
    /\ inirq = [c \in CPUs |-> FALSE]
    /\ ipi = [c \in CPUs |-> FALSE]
    /\ req = [c \in CPUs |-> {}]
    /\ ran = [s \in CPUs |-> [c \in CPUs |-> 0]]
    /\ ncalls = 0

InitCritIdle ==
    /\ cpc = [c \in CPUs |-> "run"]
    /\ sync_ipi = [c \in CPUs |-> FALSE]
    /\ ackcount = 0
    /\ generation = 0
    /\ mygen = [c \in CPUs |-> 0]
    /\ cflags = [c \in CPUs |-> TRUE]
    /\ resume = [c \in CPUs |-> "run"]
    /\ nextirq = [c \in CPUs |-> 1]
    /\ opcount = [c \in CPUs |-> [i \in IRQs |-> 0]]
    /\ nrdv = 0

InitRootIdle ==
    /\ rpc = "idle"
    /\ rflags = TRUE
    /\ rx = FALSE
    /\ rret = <<>>
    /\ rirq = 0
    /\ entry = [hw |-> TRUE, stall |-> FALSE]

InitCfgIdle ==
    /\ irq_desc = IRQs
    /\ pic_muter = [enable_irqdesc |-> FALSE, disable_irqdesc |-> FALSE]
    /\ chip_affinity = FALSE
    /\ hwlog = <<>>
    /\ warned = {}

InitSysIdle ==
    /\ upc = "user"
    /\ mayday = FALSE
    /\ root_p = TRUE
    /\ watched = {}
    /\ scno = 0
    /\ r7 = 0
    /\ orig_r7 = 0
    /\ sret = 0
    /\ nret = 0
    /\ sysret = 0
    /\ glog = <<>>

IPIPE_CRITICAL_IPI == 1
IPIPE_SERVICE_VNMI == 2
InternalIpis == {IPIPE_CRITICAL_IPI, IPIPE_SERVICE_VNMI}
\* An interrupt slot nobody has hooked.
NoHook == [ackfn |-> "NULL", handler |-> "NULL", cookie |-> "NULL"]
NoMm == 0            \* NULL
Mms == {1, 2}

InitMmIdle ==
    /\ active_mm = NoMm
    /\ tif_mmswitch = FALSE
    /\ mpc = "idle"
    /\ mfn = "-"
    /\ mprev = NoMm
    /\ mnext = NoMm
    /\ mrc = 0
    /\ mflags = TRUE

InitArchIdle ==
    /\ ipi_irqs = [d \in Domains |-> [v \in InternalIpis |-> NoHook]]
    /\ hrtimer_irq = -1
    /\ tick_regs = [cpsr_i |-> FALSE, pc |-> "user"]
    /\ mreq = FALSE
    /\ InitMmIdle

InitExtIdle ==
    /\ InitCfgIdle
    /\ InitSysIdle
    /\ InitArchIdle
    /\ sentry = [c \in CPUs |-> TRUE]

Init ==
    /\ InitPipeIdle
    /\ control \in [Domains -> [IRQs -> SUBSET ControlFlags]]
    /\ \A i \in IRQs : control["root"][i] \in RootControls
    /\ hardirqs = [c \in CPUs |-> TRUE]
    /\ InitVnmiIdle
    /\ online = CPUs
    /\ InitCritIdle
    /\ InitRootIdle
    /\ InitExtIdle

Next ==
    \/ /\ \E irq \in IRQs : ipipe_raise_irq(irq)
       /\ UNCHANGED <<vnmivars, critvars, rootvars, extvars>>
    \/ /\ ipipe_stall_root
       /\ UNCHANGED <<vnmivars, critvars, rootvars, extvars>>
    \/ /\ ipipe_stall_head
       /\ UNCHANGED <<vnmivars, critvars, rootvars, extvars>>
    \/ /\ \E d \in Domains : unstall_and_sync(d)
       /\ UNCHANGED <<vnmivars, critvars, rootvars, extvars>>
    \/ /\ hard_local_irq_toggle
       /\ UNCHANGED <<vnmivars, critvars, rootvars, extvars>>

Spec == Init /\ [][Next]_vars

(***************************************************************************)
(* The root context of the pipeline CPU, statement by statement, with      *)
(* device interrupts taken between its statements whenever the hardware    *)
(* interrupt flag is on (specification SpecRoot).                          *)
(***************************************************************************)
\* Number of interrupts that entered dispatch so far, raised or from a device.
NrEntered == Cardinality({k \in 1 .. Len(trace) : trace[k].ev \in {"raise", "hwirq"}})

\* flags = hard_local_irq_save(), as the first statement of a call.
hard_local_irq_save ==
    /\ rpc = "idle"
    /\ rflags' = hardirqs[ThisCpu]
    /\ hardirqs' = [hardirqs EXCEPT ![ThisCpu] = FALSE]
    /\ entry' = [hw |-> hardirqs[ThisCpu], stall |-> stalled["root"]]
    /\ rret' = <<>>

\* Return of a call: its locals die.
root_return(value) ==
    /\ rpc' = "idle"
    /\ entry' = [hw |-> TRUE, stall |-> FALSE]
    /\ rflags' = TRUE
    /\ rx' = FALSE
    /\ rirq' = 0
    /\ rret' = value

\* Variant of the entry of ipipe_stall_root that leaves hardware interrupts on.
stall_root_nosave ==
    /\ rpc = "idle"
    /\ rflags' = hardirqs[ThisCpu]
    /\ entry' = [hw |-> hardirqs[ThisCpu], stall |-> stalled["root"]]
    /\ rret' = <<>>
    /\ rpc' = "stall_read"
    /\ UNCHANGED <<pipevars, hardirqs, rx, rirq>>

\* ipipe_stall_root: flags = hard_smp_local_irq_save().
stall_root_save ==
    /\ hard_local_irq_save
    /\ rpc' = "stall_read"
    /\ UNCHANGED <<pipevars, rx, rirq>>

\* __set_bit(IPIPE_STALL_FLAG, &__ipipe_root_status): load of the status word.
stall_root_read ==
    /\ rpc = "stall_read"
    /\ rx' = stalled["root"]
    /\ rpc' = "stall_write"
    /\ UNCHANGED <<pipevars, hardirqs, rflags, rret, rirq, entry>>

\* Variant that flips the stall bit instead of setting it.
stall_root_change_bit ==
    /\ rpc = "stall_write"
    /\ stalled' = [stalled EXCEPT !["root"] = ~rx]
    /\ rpc' = "stall_restore"
    /\ UNCHANGED <<pend, control, trace, hardirqs, rflags, rx, rret, rirq, entry>>

\* __set_bit: store of the word read with the stall bit set.
stall_root_write ==
    /\ rpc = "stall_write"
    /\ stalled' = [stalled EXCEPT !["root"] = TRUE]
    /\ rpc' = "stall_restore"
    /\ UNCHANGED <<pend, control, trace, hardirqs, rflags, rx, rret, rirq, entry>>

\* Variant that enables hardware interrupts whatever the saved state.
stall_root_enable ==
    /\ rpc = "stall_restore"
    /\ hardirqs' = [hardirqs EXCEPT ![ThisCpu] = TRUE]
    /\ root_return(rret)
    /\ UNCHANGED pipevars

\* hard_smp_local_irq_restore(flags); return.
stall_root_restore ==
    /\ rpc = "stall_restore"
    /\ hard_local_irq_restore(rflags)
    /\ root_return(rret)
    /\ UNCHANGED pipevars

\* ipipe_test_and_stall_root: flags = hard_smp_local_irq_save().
test_and_stall_root_save ==
    /\ hard_local_irq_save
    /\ rpc' = "tas_read"
    /\ UNCHANGED <<pipevars, rx, rirq>>

\* x = __test_and_set_bit(IPIPE_STALL_FLAG, ...): load of the status word.
test_and_stall_root_read ==
    /\ rpc = "tas_read"
    /\ rx' = stalled["root"]
    /\ rpc' = "tas_write"
    /\ UNCHANGED <<pipevars, hardirqs, rflags, rret, rirq, entry>>

\* __test_and_set_bit: store of the word read with the stall bit set.
test_and_stall_root_write ==
    /\ rpc = "tas_write"
    /\ stalled' = [stalled EXCEPT !["root"] = TRUE]
    /\ rpc' = "tas_restore"
    /\ UNCHANGED <<pend, control, trace, hardirqs, rflags, rx, rret, rirq, entry>>

\* Variant that returns the value of the flag after the update.
test_and_stall_root_restore_new ==
    /\ rpc = "tas_restore"
    /\ hard_local_irq_restore(rflags)
    /\ root_return(<<stalled["root"]>>)
    /\ UNCHANGED pipevars

\* hard_smp_local_irq_restore(flags); return x.
test_and_stall_root_restore ==
    /\ rpc = "tas_restore"
    /\ hard_local_irq_restore(rflags)
    /\ root_return(<<rx>>)
    /\ UNCHANGED pipevars

\* ipipe_test_root: flags = hard_smp_local_irq_save().
test_root_save ==
    /\ hard_local_irq_save
    /\ rpc' = "test_bit"
    /\ UNCHANGED <<pipevars, rx, rirq>>

\* x = test_bit(IPIPE_STALL_FLAG, &__ipipe_root_status).
test_root_bit ==
    /\ rpc = "test_bit"
    /\ rx' = stalled["root"]
    /\ rpc' = "test_restore"
    /\ UNCHANGED <<pipevars, hardirqs, rflags, rret, rirq, entry>>

\* hard_smp_local_irq_restore(flags); return x.
test_root_restore ==
    /\ rpc = "test_restore"
    /\ hard_local_irq_restore(rflags)
    /\ root_return(<<rx>>)
    /\ UNCHANGED pipevars

\* ipipe_raise_irq(irq): flags = hard_local_irq_save().
raise_irq_save(irq) ==
    /\ NrEntered < MaxRaise
    /\ hard_local_irq_save
    /\ rirq' = irq
    /\ rpc' = "raise_dispatch"
    /\ UNCHANGED <<pipevars, rx>>

\* Variant that injects the raised interrupt at the root stage.
raise_irq_dispatch_root ==
    /\ rpc = "raise_dispatch"
    /\ LET out == __ipipe_walk_pipeline(Len(Pipeline), rirq, pend,
                                        Append(trace, Ev("raise", "-", rirq)))
       IN  /\ pend' = out.pend
           /\ trace' = out.trace
    /\ rpc' = "raise_restore"
    /\ UNCHANGED <<stalled, control, hardirqs, rflags, rx, rret, rirq, entry>>

\* Variant that stops at a stalled head domain whatever its control bits.
raise_irq_dispatch_stick ==
    /\ rpc = "raise_dispatch"
    /\ LET tr == Append(trace, Ev("raise", "-", rirq))
           out == IF stalled[Pipeline[1]]
                  THEN [pend |-> [pend EXCEPT ![Pipeline[1]] =
                                     __ipipe_set_irq_pending(@, rirq)],
                        trace |-> tr]
                  ELSE __ipipe_dispatch_irq(rirq, {IPIPE_IRQF_NOACK}, pend, tr)
       IN  /\ pend' = out.pend
           /\ trace' = out.trace
    /\ rpc' = "raise_restore"
    /\ UNCHANGED <<stalled, control, hardirqs, rflags, rx, rret, rirq, entry>>

\* Variant that appends to the log of a stalled head without looking for
\* an earlier entry of the interrupt.
raise_irq_dispatch_dup ==
    /\ rpc = "raise_dispatch"
    /\ LET out == __ipipe_dispatch_irq(rirq, {IPIPE_IRQF_NOACK}, pend,
                                       Append(trace, Ev("raise", "-", rirq)))
       IN  /\ pend' = IF stalled[Pipeline[1]]
                      THEN [out.pend EXCEPT ![Pipeline[1]] =
                               Append(pend[Pipeline[1]], rirq)]
                      ELSE out.pend
           /\ trace' = out.trace
    /\ rpc' = "raise_restore"
    /\ UNCHANGED <<stalled, control, hardirqs, rflags, rx, rret, rirq, entry>>

\* Variant that drops the interrupt when the head domain is stalled.
raise_irq_dispatch_lossy ==
    /\ rpc = "raise_dispatch"
    /\ LET tr == Append(trace, Ev("raise", "-", rirq))
           out == IF stalled[Pipeline[1]]
                  THEN [pend |-> pend, trace |-> tr]
                  ELSE __ipipe_dispatch_irq(rirq, {IPIPE_IRQF_NOACK}, pend, tr)
       IN  /\ pend' = out.pend
           /\ trace' = out.trace
    /\ rpc' = "raise_restore"
    /\ UNCHANGED <<stalled, control, hardirqs, rflags, rx, rret, rirq, entry>>

\* Variant that dispatches the raised interrupt like a device interrupt.
raise_irq_dispatch_ack ==
    /\ rpc = "raise_dispatch"
    /\ LET out == __ipipe_dispatch_irq(rirq, {}, pend,
                                       Append(trace, Ev("raise", "-", rirq)))
       IN  /\ pend' = out.pend
           /\ trace' = out.trace
    /\ rpc' = "raise_restore"
    /\ UNCHANGED <<stalled, control, hardirqs, rflags, rx, rret, rirq, entry>>

\* __ipipe_dispatch_irq(irq, IPIPE_IRQF_NOACK).
raise_irq_dispatch ==
    /\ rpc = "raise_dispatch"
    /\ LET out == __ipipe_dispatch_irq(rirq, {IPIPE_IRQF_NOACK}, pend,
                                       Append(trace, Ev("raise", "-", rirq)))
       IN  /\ pend' = out.pend
           /\ trace' = out.trace
    /\ rpc' = "raise_restore"
    /\ UNCHANGED <<stalled, control, hardirqs, rflags, rx, rret, rirq, entry>>

\* hard_local_irq_restore(flags); return.
raise_irq_restore ==
    /\ rpc = "raise_restore"
    /\ hard_local_irq_restore(rflags)
    /\ root_return(rret)
    /\ UNCHANGED pipevars

\* Variant of the device interrupt entry that passes IPIPE_IRQF_NOACK.
grab_irq_dispatch_noack(irq) ==
    /\ NrEntered < MaxRaise
    /\ hardirqs[ThisCpu]
    /\ LET out == __ipipe_dispatch_irq(irq, {IPIPE_IRQF_NOACK}, pend,
                                       Append(trace, Ev("hwirq", "-", irq)))
       IN  /\ pend' = out.pend
           /\ trace' = out.trace
    /\ UNCHANGED <<stalled, control, hardirqs, rootvars>>

\* __ipipe_grab_irq: a device interrupt is taken when the hardware interrupt
\* flag is on; the handler runs with hardware interrupts off, calls
\* __ipipe_dispatch_irq(irq, 0) and returns to the interrupted context.
grab_irq_dispatch(irq) ==
    /\ NrEntered < MaxRaise
    /\ hardirqs[ThisCpu]
    /\ LET out == __ipipe_dispatch_irq(irq, {}, pend,
                                       Append(trace, Ev("hwirq", "-", irq)))
       IN  /\ pend' = out.pend
           /\ trace' = out.trace
    /\ UNCHANGED <<stalled, control, hardirqs, rootvars>>

ipipe_stall_root_steps ==
    \/ stall_root_save
    \/ stall_root_read
    \/ stall_root_write
    \/ stall_root_restore

ipipe_test_and_stall_root ==
    \/ test_and_stall_root_save
    \/ test_and_stall_root_read
    \/ test_and_stall_root_write
    \/ test_and_stall_root_restore

ipipe_test_root ==
    \/ test_root_save
    \/ test_root_bit
    \/ test_root_restore

ipipe_raise_irq_steps ==
    \/ \E irq \in IRQs : raise_irq_save(irq)
    \/ raise_irq_dispatch
    \/ raise_irq_restore

NextRoot ==
    \/ /\ ipipe_stall_root_steps
       /\ UNCHANGED <<vnmivars, critvars, extvars>>
    \/ /\ ipipe_test_and_stall_root
       /\ UNCHANGED <<vnmivars, critvars, extvars>>
    \/ /\ ipipe_test_root
       /\ UNCHANGED <<vnmivars, critvars, extvars>>
    \/ /\ ipipe_raise_irq_steps
       /\ UNCHANGED <<vnmivars, critvars, extvars>>
    \/ /\ \E irq \in IRQs : grab_irq_dispatch(irq)
       /\ UNCHANGED <<vnmivars, critvars, extvars>>
    \/ /\ rpc = "idle"
       /\ ipipe_stall_head
       /\ UNCHANGED <<vnmivars, critvars, rootvars, extvars>>
    \/ /\ rpc = "idle"
       /\ \E d \in Domains : unstall_and_sync(d)
       /\ UNCHANGED <<vnmivars, critvars, rootvars, extvars>>
    \/ /\ rpc = "idle"
       /\ hard_local_irq_toggle
       /\ UNCHANGED <<vnmivars, critvars, rootvars, extvars>>

\* Every IRQ carries the same control bits within a domain.
InitRoot ==
    /\ Init
    /\ \A d \in Domains : \A i, j \in IRQs : control[d][i] = control[d][j]

SpecRoot == InitRoot /\ [][NextRoot]_vars

(***************************************************************************)
(* Virtual-NMI broadcast: __ipipe_send_vnmi and __ipipe_do_vnmi.           *)
(***************************************************************************)
NoRuns == [c \in CPUs |-> 0]
Holding == {"locked", "publish", "ipi", "wait", "withdraw", "unlock"}

\* Entry of __ipipe_send_vnmi(fn, cpumask, arg) on CPU c: data.cpumask = cpumask.
send_vnmi_call(c, mask) ==
    /\ ncalls < MaxCalls
    /\ spc[c] = "idle" /\ vpc[c] = "none"
    /\ spc' = [spc EXCEPT ![c] = "trylock"]
    /\ req' = [req EXCEPT ![c] = mask]
    /\ desc' = [desc EXCEPT ![c] = mask]
    /\ ran' = [ran EXCEPT ![c] = NoRuns]
    /\ ncalls' = ncalls + 1
    /\ UNCHANGED <<vnmi_lock, vnmi_data, data_lock, vpc, vdata, flags, inirq, ipi, hardirqs>>

\* Variant whose trylock does not test the lock.
send_vnmi_trylock_blind(c) ==
    /\ spc[c] = "trylock" /\ vpc[c] = "none"
    /\ vnmi_lock' = c
    /\ flags' = [flags EXCEPT ![c] = hardirqs[c]]
    /\ hardirqs' = [hardirqs EXCEPT ![c] = FALSE]
    /\ spc' = [spc EXCEPT ![c] = "locked"]
    /\ UNCHANGED <<vnmi_data, data_lock, desc, vpc, vdata, inirq, ipi, req, ran, ncalls>>

\* spin_trylock_irqsave succeeds: hardware interrupts stay off, state saved.
send_vnmi_trylock(c) ==
    /\ spc[c] = "trylock" /\ vpc[c] = "none"
    /\ vnmi_lock = NoCpu
    /\ vnmi_lock' = c
    /\ flags' = [flags EXCEPT ![c] = hardirqs[c]]
    /\ hardirqs' = [hardirqs EXCEPT ![c] = FALSE]
    /\ spc' = [spc EXCEPT ![c] = "locked"]
    /\ UNCHANGED <<vnmi_data, data_lock, desc, vpc, vdata, inirq, ipi, req, ran, ncalls>>

\* Variant that polls only when hardware interrupts are enabled.
send_vnmi_poll_inverted(c) ==
    /\ spc[c] = "trylock" /\ vpc[c] = "none"
    /\ vnmi_lock # NoCpu
    /\ hardirqs[c]
    /\ vpc' = [vpc EXCEPT ![c] = "rlock"]
    /\ UNCHANGED <<vnmi_lock, vnmi_data, data_lock, desc, spc, vdata, flags, inirq,
                   ipi, req, ran, ncalls, hardirqs>>

\* spin_trylock_irqsave fails (interrupt state restored) and
\* hard_irqs_disabled(): serve a pending request inline.
send_vnmi_poll(c) ==
    /\ spc[c] = "trylock" /\ vpc[c] = "none"
    /\ vnmi_lock # NoCpu
    /\ ~hardirqs[c]
    /\ vpc' = [vpc EXCEPT ![c] = "rlock"]
    /\ UNCHANGED <<vnmi_lock, vnmi_data, data_lock, desc, spc, vdata, flags, inirq,
                   ipi, req, ran, ncalls, hardirqs>>

\* Variant without the test for an empty mask.
send_vnmi_locked_untested(c) ==
    /\ spc[c] = "locked"
    /\ desc' = [desc EXCEPT ![c] = @ \ {c}]
    /\ spc' = [spc EXCEPT ![c] = "publish"]
    /\ UNCHANGED <<vnmi_lock, hardirqs>>
    /\ UNCHANGED <<vnmi_data, data_lock, vpc, vdata, flags, inirq, ipi, req, ran, ncalls>>

\* cpu_clear(cpu, data.cpumask); an empty mask unlocks and returns.
send_vnmi_locked(c) ==
    /\ spc[c] = "locked"
    /\ desc' = [desc EXCEPT ![c] = @ \ {c}]
    /\ IF desc[c] \ {c} = {}
       THEN /\ vnmi_lock' = NoCpu
            /\ hardirqs' = [hardirqs EXCEPT ![c] = flags[c]]
            /\ spc' = [spc EXCEPT ![c] = "ret"]
       ELSE /\ spc' = [spc EXCEPT ![c] = "publish"]
            /\ UNCHANGED <<vnmi_lock, hardirqs>>
    /\ UNCHANGED <<vnmi_data, data_lock, vpc, vdata, flags, inirq, ipi, req, ran, ncalls>>

\* write_lock; __ipipe_vnmi.data = &data; write_unlock.
send_vnmi_publish(c) ==
    /\ spc[c] = "publish"
    /\ data_lock.w = NoCpu /\ data_lock.r = {}
    /\ vnmi_data' = c
    /\ spc' = [spc EXCEPT ![c] = "ipi"]
    /\ UNCHANGED <<vnmi_lock, data_lock, desc, vpc, vdata, flags, inirq, ipi, req, ran,
                   ncalls, hardirqs>>

\* ipipe_send_ipi(IPIPE_SERVICE_VNMI, data.cpumask).
send_vnmi_ipi(c) ==
    /\ spc[c] = "ipi"
    /\ ipi' = [t \in CPUs |-> ipi[t] \/ t \in desc[c]]
    /\ spc' = [spc EXCEPT ![c] = "wait"]
    /\ UNCHANGED <<vnmi_lock, vnmi_data, data_lock, desc, vpc, vdata, flags, inirq, req,
                   ran, ncalls, hardirqs>>

\* Variant that does not wait for the mask to drain.
send_vnmi_wait_skipped(c) ==
    /\ spc[c] = "wait"
    /\ spc' = [spc EXCEPT ![c] = "withdraw"]
    /\ UNCHANGED <<vnmi_lock, vnmi_data, data_lock, desc, vpc, vdata, flags, inirq, ipi,
                   req, ran, ncalls, hardirqs>>

\* while (!cpus_empty(data.cpumask)) cpu_relax();
send_vnmi_wait(c) ==
    /\ spc[c] = "wait"
    /\ desc[c] = {}
    /\ spc' = [spc EXCEPT ![c] = "withdraw"]
    /\ UNCHANGED <<vnmi_lock, vnmi_data, data_lock, desc, vpc, vdata, flags, inirq, ipi,
                   req, ran, ncalls, hardirqs>>

\* Variant that withdraws without the writer lock.
send_vnmi_withdraw_nolock(c) ==
    /\ spc[c] = "withdraw"
    /\ vnmi_data' = NoCpu
    /\ spc' = [spc EXCEPT ![c] = "unlock"]
    /\ UNCHANGED <<vnmi_lock, data_lock, desc, vpc, vdata, flags, inirq, ipi, req, ran,
                   ncalls, hardirqs>>

\* write_lock; __ipipe_vnmi.data = NULL; write_unlock.
send_vnmi_withdraw(c) ==
    /\ spc[c] = "withdraw"
    /\ data_lock.w = NoCpu /\ data_lock.r = {}
    /\ vnmi_data' = NoCpu
    /\ spc' = [spc EXCEPT ![c] = "unlock"]
    /\ UNCHANGED <<vnmi_lock, data_lock, desc, vpc, vdata, flags, inirq, ipi, req, ran,
                   ncalls, hardirqs>>

\* Variant that unlocks and leaves hardware interrupts enabled.
send_vnmi_unlock_irq(c) ==
    /\ spc[c] = "unlock"
    /\ vnmi_lock' = NoCpu
    /\ hardirqs' = [hardirqs EXCEPT ![c] = TRUE]
    /\ spc' = [spc EXCEPT ![c] = "ret"]
    /\ UNCHANGED <<vnmi_data, data_lock, desc, vpc, vdata, flags, inirq, ipi, req, ran,
                   ncalls>>

\* spin_unlock_irqrestore(&__ipipe_vnmi.lock, flags).
send_vnmi_unlock(c) ==
    /\ spc[c] = "unlock"
    /\ vnmi_lock' = NoCpu
    /\ hardirqs' = [hardirqs EXCEPT ![c] = flags[c]]
    /\ spc' = [spc EXCEPT ![c] = "ret"]
    /\ UNCHANGED <<vnmi_data, data_lock, desc, vpc, vdata, flags, inirq, ipi, req, ran,
                   ncalls>>

\* The call has returned; its stack frame (the descriptor) is gone.
send_vnmi_return(c) ==
    /\ spc[c] = "ret"
    /\ spc' = [spc EXCEPT ![c] = "idle"]
    /\ req' = [req EXCEPT ![c] = {}]
    /\ desc' = [desc EXCEPT ![c] = {}]
    /\ ran' = [ran EXCEPT ![c] = NoRuns]
    /\ flags' = [flags EXCEPT ![c] = TRUE]
    /\ UNCHANGED <<vnmi_lock, vnmi_data, data_lock, vpc, vdata, inirq, ipi, ncalls,
                   hardirqs>>

\* The CPU takes IPIPE_SERVICE_VNMI: the handler runs with interrupts off.
take_vnmi_ipi(c) ==
    /\ ipi[c] /\ hardirqs[c] /\ vpc[c] = "none"
    /\ ipi' = [ipi EXCEPT ![c] = FALSE]
    /\ hardirqs' = [hardirqs EXCEPT ![c] = FALSE]
    /\ inirq' = [inirq EXCEPT ![c] = TRUE]
    /\ vpc' = [vpc EXCEPT ![c] = "rlock"]
    /\ UNCHANGED <<vnmi_lock, vnmi_data, data_lock, desc, spc, vdata, flags, req, ran,
                   ncalls>>

\* read_lock(&__ipipe_vnmi.data_lock).
do_vnmi_read_lock(c) ==
    /\ vpc[c] = "rlock"
    /\ data_lock.w = NoCpu
    /\ data_lock' = [data_lock EXCEPT !.r = @ \cup {c}]
    /\ vpc' = [vpc EXCEPT ![c] = "test"]
    /\ UNCHANGED <<vnmi_lock, vnmi_data, desc, spc, vdata, flags, inirq, ipi, req, ran,
                   ncalls, hardirqs>>

\* Variant without the cpumask_test_cpu test.
do_vnmi_fn_untested(c) ==
    /\ vpc[c] = "test"
    /\ vdata' = [vdata EXCEPT ![c] = vnmi_data]
    /\ IF vnmi_data # NoCpu
       THEN /\ ran' = [ran EXCEPT ![vnmi_data][c] = @ + 1]
            /\ vpc' = [vpc EXCEPT ![c] = "clear"]
       ELSE /\ vpc' = [vpc EXCEPT ![c] = "runlock"]
            /\ UNCHANGED ran
    /\ UNCHANGED <<vnmi_lock, vnmi_data, data_lock, desc, spc, flags, inirq, ipi, req,
                   ncalls, hardirqs>>

\* data = __ipipe_vnmi.data;
\* if (data && cpumask_test_cpu(cpu, &data->cpumask)) data->fn(data->arg);
do_vnmi_fn(c) ==
    /\ vpc[c] = "test"
    /\ vdata' = [vdata EXCEPT ![c] = vnmi_data]
    /\ IF vnmi_data # NoCpu /\ c \in desc[vnmi_data]
       THEN /\ ran' = [ran EXCEPT ![vnmi_data][c] = @ + 1]
            /\ vpc' = [vpc EXCEPT ![c] = "clear"]
       ELSE /\ vpc' = [vpc EXCEPT ![c] = "runlock"]
            /\ UNCHANGED ran
    /\ UNCHANGED <<vnmi_lock, vnmi_data, data_lock, desc, spc, flags, inirq, ipi, req,
                   ncalls, hardirqs>>

\* Variant that empties the mask.
do_vnmi_clear_all(c) ==
    /\ vpc[c] = "clear"
    /\ desc' = [desc EXCEPT ![vdata[c]] = {}]
    /\ vpc' = [vpc EXCEPT ![c] = "runlock"]
    /\ UNCHANGED <<vnmi_lock, vnmi_data, data_lock, spc, vdata, flags, inirq, ipi, req,
                   ran, ncalls, hardirqs>>

\* cpu_clear(cpu, data->cpumask).
do_vnmi_clear(c) ==
    /\ vpc[c] = "clear"
    /\ desc' = [desc EXCEPT ![vdata[c]] = @ \ {c}]
    /\ vpc' = [vpc EXCEPT ![c] = "runlock"]
    /\ UNCHANGED <<vnmi_lock, vnmi_data, data_lock, spc, vdata, flags, inirq, ipi, req,
                   ran, ncalls, hardirqs>>

\* read_unlock(&__ipipe_vnmi.data_lock); return (from interrupt: interrupts
\* are on again; inline: back to the retry loop).
do_vnmi_read_unlock(c) ==
    /\ vpc[c] = "runlock"
    /\ data_lock' = [data_lock EXCEPT !.r = @ \ {c}]
    /\ vpc' = [vpc EXCEPT ![c] = "none"]
    /\ vdata' = [vdata EXCEPT ![c] = NoCpu]
    /\ inirq' = [inirq EXCEPT ![c] = FALSE]
    /\ hardirqs' = [hardirqs EXCEPT ![c] = inirq[c]]
    /\ UNCHANGED <<vnmi_lock, vnmi_data, desc, spc, flags, ipi, req, ran, ncalls>>

\* The context calling into this file runs with interrupts on or off.
hard_irq_disable(c) ==
    /\ spc[c] = "idle" /\ vpc[c] = "none" /\ cpc[c] = "run" /\ hardirqs[c]
    /\ hardirqs' = [hardirqs EXCEPT ![c] = FALSE]
    /\ UNCHANGED vnmivars

hard_irq_enable(c) ==
    /\ spc[c] = "idle" /\ vpc[c] = "none" /\ cpc[c] = "run" /\ ~hardirqs[c]
    /\ hardirqs' = [hardirqs EXCEPT ![c] = TRUE]
    /\ UNCHANGED vnmivars

__ipipe_send_vnmi(c) ==
    \/ \E mask \in SUBSET CPUs : send_vnmi_call(c, mask)
    \/ send_vnmi_trylock(c)
    \/ send_vnmi_poll(c)
    \/ send_vnmi_locked(c)
    \/ send_vnmi_publish(c)
    \/ send_vnmi_ipi(c)
    \/ send_vnmi_wait(c)
    \/ send_vnmi_withdraw(c)
    \/ send_vnmi_unlock(c)
    \/ send_vnmi_return(c)

__ipipe_do_vnmi(c) ==
    \/ do_vnmi_read_lock(c)
    \/ do_vnmi_fn(c)
    \/ do_vnmi_clear(c)
    \/ do_vnmi_read_unlock(c)

InitVnmi ==
    /\ InitPipeIdle
    /\ control = [d \in Domains |-> [i \in IRQs |-> {}]]
    /\ hardirqs = [c \in CPUs |-> TRUE]
    /\ InitVnmiIdle
    /\ online = CPUs
    /\ InitCritIdle
    /\ InitRootIdle
    /\ InitExtIdle

\* History: the hardware interrupt state each running __ipipe_send_vnmi was
\* entered with.
send_vnmi_entry ==
    sentry' = [c \in CPUs |->
                 IF spc[c] = "idle" /\ spc'[c] = "trylock" THEN hardirqs[c]
                 ELSE IF spc'[c] = "idle" THEN TRUE
                 ELSE sentry[c]]

NextVnmi ==
    /\ \E c \in CPUs :
          \/ __ipipe_send_vnmi(c)
          \/ __ipipe_do_vnmi(c)
          \/ take_vnmi_ipi(c)
          \/ hard_irq_disable(c)
          \/ hard_irq_enable(c)
    /\ send_vnmi_entry
    /\ UNCHANGED <<pipevars, critvars, rootvars, cfgvars, sysvars, archvars>>

SpecVnmi == InitVnmi /\ [][NextVnmi]_vars

\* Scheduling: a CPU inside either function keeps executing, and a CPU that
\* spins for a lock gets it if the lock is free again and again (a reader
\* polling in the retry loop does not starve the writer); a pending IPI is
\* taken whenever the CPU has hardware interrupts enabled; a context that
\* disabled hardware interrupts enables them again.
vnmi_progress(c) ==
    /\ \/ send_vnmi_trylock(c)
       \/ send_vnmi_poll(c)
       \/ send_vnmi_locked(c)
       \/ send_vnmi_publish(c)
       \/ send_vnmi_ipi(c)
       \/ send_vnmi_wait(c)
       \/ send_vnmi_withdraw(c)
       \/ send_vnmi_unlock(c)
       \/ send_vnmi_return(c)
       \/ __ipipe_do_vnmi(c)
    /\ send_vnmi_entry
    /\ UNCHANGED <<pipevars, critvars, rootvars, cfgvars, sysvars, archvars>>

FairVnmi ==
    /\ SpecVnmi
    /\ \A c \in CPUs :
          /\ SF_vars(vnmi_progress(c) \/ (take_vnmi_ipi(c) /\ UNCHANGED <<pipevars, critvars, rootvars, extvars>>))
          /\ WF_vars(hard_irq_enable(c) /\ UNCHANGED <<pipevars, critvars, rootvars, extvars>>)

\* The same without the last assumption: a context outside the two functions
\* may keep hardware interrupts disabled for ever.
FairVnmiMasked ==
    /\ SpecVnmi
    /\ \A c \in CPUs :
          SF_vars(vnmi_progress(c) \/ (take_vnmi_ipi(c) /\ UNCHANGED <<pipevars, critvars, rootvars, extvars>>))

(***************************************************************************)
(* Critical rendezvous: ipipe_critical_enter / ipipe_critical_exit and the *)
(* IPIPE_CRITICAL_IPI handler, around __ipipe_enable_pipeline.             *)
(***************************************************************************)
RootIrqs == <<5, 7>>     \* the root interrupts, in the order of the request loop
NoOps == [i \in IRQs |-> 0]

\* flags = ipipe_critical_enter(NULL): hardware interrupts off; with other
\* CPUs online, send them the critical IPI.
ipipe_critical_enter(c) ==
    /\ cflags' = [cflags EXCEPT ![c] = hardirqs[c]]
    /\ hardirqs' = [hardirqs EXCEPT ![c] = FALSE]
    /\ IF online = {c}
       THEN /\ cpc' = [cpc EXCEPT ![c] = "crit"]
            /\ UNCHANGED sync_ipi
       ELSE /\ cpc' = [cpc EXCEPT ![c] = "wait"]
            /\ sync_ipi' = [o \in CPUs |-> sync_ipi[o] \/ o \in online \ {c}]

\* The initiator returns from ipipe_critical_enter once every other online
\* CPU has acknowledged.
critical_enter_wait(c) ==
    /\ cpc[c] = "wait"
    /\ ackcount = Cardinality(online) - 1
    /\ cpc' = [cpc EXCEPT ![c] = "crit"]
    /\ UNCHANGED <<online, sync_ipi, ackcount, generation, mygen, cflags, resume,
                   nextirq, opcount, nrdv, hardirqs, control>>

\* ipipe_critical_exit(flags): release the waiters, restore the interrupt state.
ipipe_critical_exit(c) ==
    /\ cpc[c] = "exit"
    /\ ackcount' = 0
    /\ generation' = generation + 1
    /\ hardirqs' = [hardirqs EXCEPT ![c] = cflags[c]]
    /\ cpc' = [cpc EXCEPT ![c] = "ret"]
    /\ UNCHANGED <<online, sync_ipi, mygen, cflags, resume, nextirq, opcount, nrdv,
                   control>>

\* A CPU takes IPIPE_CRITICAL_IPI: interrupts off, acknowledge, spin.
__ipipe_do_critical_sync(c) ==
    /\ sync_ipi[c] /\ hardirqs[c] /\ cpc[c] \in {"run", "ret"}
    /\ sync_ipi' = [sync_ipi EXCEPT ![c] = FALSE]
    /\ hardirqs' = [hardirqs EXCEPT ![c] = FALSE]
    /\ resume' = [resume EXCEPT ![c] = cpc[c]]
    /\ mygen' = [mygen EXCEPT ![c] = generation]
    /\ ackcount' = ackcount + 1
    /\ cpc' = [cpc EXCEPT ![c] = "spin"]
    /\ UNCHANGED <<online, generation, cflags, nextirq, opcount, nrdv, control>>

\* The waiter sees the release and resumes what the IPI interrupted.
critical_sync_release(c) ==
    /\ cpc[c] = "spin"
    /\ generation # mygen[c]
    /\ cpc' = [cpc EXCEPT ![c] = resume[c]]
    /\ resume' = [resume EXCEPT ![c] = "run"]
    /\ hardirqs' = [hardirqs EXCEPT ![c] = TRUE]
    /\ UNCHANGED <<online, sync_ipi, ackcount, generation, mygen, cflags, nextirq,
                   opcount, nrdv, control>>

\* __ipipe_enable_pipeline, line 289.
enable_pipeline_enter(c) ==
    /\ nrdv < MaxRendezvous
    /\ c \in online /\ cpc[c] = "run"
    /\ ipipe_critical_enter(c)
    /\ nrdv' = nrdv + 1
    /\ UNCHANGED <<online, ackcount, generation, mygen, resume, nextirq, opcount, control>>

\* Variant that runs the request loop without the rendezvous being complete.
enable_pipeline_request_unsynced(c) ==
    /\ cpc[c] \in {"wait", "crit"}
    /\ nextirq[c] <= Len(RootIrqs)
    /\ control' = [control EXCEPT !["root"][RootIrqs[nextirq[c]]] = {IPIPE_HANDLE_MASK}]
    /\ opcount' = [opcount EXCEPT ![c][RootIrqs[nextirq[c]]] = @ + 1]
    /\ nextirq' = [nextirq EXCEPT ![c] = @ + 1]
    /\ UNCHANGED <<online, cpc, sync_ipi, ackcount, generation, mygen, cflags, resume,
                   nrdv, hardirqs>>

\* Lines 292-296: ipipe_request_irq(ipipe_root_domain, irq, __ipipe_do_IRQ, ...).
enable_pipeline_request(c) ==
    /\ cpc[c] = "crit"
    /\ nextirq[c] <= Len(RootIrqs)
    /\ control' = [control EXCEPT !["root"][RootIrqs[nextirq[c]]] = {IPIPE_HANDLE_MASK}]
    /\ opcount' = [opcount EXCEPT ![c][RootIrqs[nextirq[c]]] = @ + 1]
    /\ nextirq' = [nextirq EXCEPT ![c] = @ + 1]
    /\ UNCHANGED <<online, cpc, sync_ipi, ackcount, generation, mygen, cflags, resume,
                   nrdv, hardirqs>>

\* Variant that returns without calling ipipe_critical_exit.
enable_pipeline_done_norelease(c) ==
    /\ cpc[c] = "crit"
    /\ nextirq[c] = Len(RootIrqs) + 1
    /\ cpc' = [cpc EXCEPT ![c] = "ret"]
    /\ UNCHANGED <<online, sync_ipi, ackcount, generation, mygen, cflags, resume,
                   nextirq, opcount, nrdv, hardirqs, control>>

\* Line 302: the loop is over, ipipe_critical_exit(flags) is called.
enable_pipeline_done(c) ==
    /\ cpc[c] = "crit"
    /\ nextirq[c] = Len(RootIrqs) + 1
    /\ cpc' = [cpc EXCEPT ![c] = "exit"]
    /\ UNCHANGED <<online, sync_ipi, ackcount, generation, mygen, cflags, resume,
                   nextirq, opcount, nrdv, hardirqs, control>>

\* Line 303: __ipipe_enable_pipeline returns.
enable_pipeline_return(c) ==
    /\ cpc[c] = "ret"
    /\ cpc' = [cpc EXCEPT ![c] = "run"]
    /\ opcount' = [opcount EXCEPT ![c] = NoOps]
    /\ nextirq' = [nextirq EXCEPT ![c] = 1]
    /\ cflags' = [cflags EXCEPT ![c] = TRUE]
    /\ UNCHANGED <<online, sync_ipi, ackcount, generation, mygen, resume, nrdv,
                   hardirqs, control>>

__ipipe_enable_pipeline(c) ==
    \/ enable_pipeline_enter(c)
    \/ critical_enter_wait(c)
    \/ enable_pipeline_request(c)
    \/ enable_pipeline_done(c)
    \/ ipipe_critical_exit(c)
    \/ enable_pipeline_return(c)

\* __ipipe_grab_irq: a device interrupt is dispatched with interrupts off.
grab_irq_begin(c) ==
    /\ c \in online /\ cpc[c] = "run" /\ hardirqs[c]
    /\ cpc' = [cpc EXCEPT ![c] = "dispatch"]
    /\ hardirqs' = [hardirqs EXCEPT ![c] = FALSE]
    /\ UNCHANGED <<online, sync_ipi, ackcount, generation, mygen, cflags, resume,
                   nextirq, opcount, nrdv, control>>

grab_irq_end(c) ==
    /\ cpc[c] = "dispatch"
    /\ cpc' = [cpc EXCEPT ![c] = "run"]
    /\ hardirqs' = [hardirqs EXCEPT ![c] = TRUE]
    /\ UNCHANGED <<online, sync_ipi, ackcount, generation, mygen, cflags, resume,
                   nextirq, opcount, nrdv, control>>

InitCrit ==
    /\ InitPipeIdle
    /\ control = [d \in Domains |-> [i \in IRQs |-> {}]]
    /\ hardirqs = [c \in CPUs |-> TRUE]
    /\ InitVnmiIdle
    /\ online \in {S \in SUBSET CPUs : ThisCpu \in S}
    /\ InitCritIdle
    /\ InitRootIdle
    /\ InitExtIdle

crit_progress(c) ==
    /\ \/ critical_enter_wait(c)
       \/ enable_pipeline_request(c)
       \/ enable_pipeline_done(c)
       \/ ipipe_critical_exit(c)
       \/ enable_pipeline_return(c)
       \/ critical_sync_release(c)
       \/ grab_irq_end(c)
    /\ UNCHANGED <<stalled, pend, trace, vnmivars, rootvars, extvars>>

NextCrit ==
    /\ \E c \in CPUs :
          \/ __ipipe_enable_pipeline(c)
          \/ __ipipe_do_critical_sync(c)
          \/ critical_sync_release(c)
          \/ grab_irq_begin(c)
          \/ grab_irq_end(c)
          \/ (c \in online /\ hard_irq_disable(c) /\ UNCHANGED <<critvars, control>>)
          \/ (c \in online /\ hard_irq_enable(c) /\ UNCHANGED <<critvars, control>>)
    /\ UNCHANGED <<stalled, pend, trace, vnmivars, rootvars, extvars>>

SpecCrit == InitCrit /\ [][NextCrit]_vars

\* Scheduling: a CPU inside the rendezvous or the dispatch keeps executing.
FairCrit == SpecCrit /\ \A c \in CPUs : WF_vars(crit_progress(c))

(***************************************************************************)
(* Interrupt line configuration: __ipipe_enable_irqdesc,                   *)
(* __ipipe_disable_irqdesc and ipipe_set_irq_affinity (SpecCfg).           *)
(***************************************************************************)
Hw(op, d, irq, mask) == [op |-> op, dom |-> d, irq |-> irq, mask |-> mask]

\* WARN_ON_ONCE(cond) at a site: reports the first time the condition holds.
WARN_ON_ONCE(site, log) == IF site \in warned THEN log ELSE Append(log, Hw("warn", site, 0, {}))

\* Variant that calls the muter without looking for the descriptor.
enable_irqdesc_unchecked(ipd, irq) ==
    /\ hwlog' = IF pic_muter.enable_irqdesc
                THEN <<Hw("enable_irqdesc", ipd, irq, {}), Hw("muter_enable", ipd, irq, {})>>
                ELSE <<Hw("enable_irqdesc", ipd, irq, {})>>
    /\ UNCHANGED <<irq_desc, pic_muter, chip_affinity, warned>>

__ipipe_enable_irqdesc(ipd, irq) ==
    /\ hwlog' = IF irq \notin irq_desc
                THEN <<Hw("enable_irqdesc", ipd, irq, {})>>
                ELSE IF pic_muter.enable_irqdesc
                THEN <<Hw("enable_irqdesc", ipd, irq, {}), Hw("muter_enable", ipd, irq, {})>>
                ELSE <<Hw("enable_irqdesc", ipd, irq, {})>>
    /\ UNCHANGED <<irq_desc, pic_muter, chip_affinity, warned>>

__ipipe_disable_irqdesc(ipd, irq) ==
    /\ hwlog' = IF pic_muter.disable_irqdesc
                THEN <<Hw("disable_irqdesc", ipd, irq, {}), Hw("muter_disable", ipd, irq, {})>>
                ELSE <<Hw("disable_irqdesc", ipd, irq, {})>>
    /\ UNCHANGED <<irq_desc, pic_muter, chip_affinity, warned>>

\* Variant that passes the requested mask on without the online restriction.
set_irq_affinity_unrestricted(irq, cpumask) ==
    /\ LET call == <<Hw("set_irq_affinity", "-", irq, cpumask)>>
       IN  IF ~chip_affinity
           THEN /\ hwlog' = WARN_ON_ONCE("no_affinity", call)
                /\ warned' = warned \cup {"no_affinity"}
           ELSE /\ hwlog' = Append(call, Hw("irq_set_affinity", "-", irq, cpumask))
                /\ UNCHANGED warned
    /\ UNCHANGED <<irq_desc, pic_muter, chip_affinity>>

ipipe_set_irq_affinity(irq, cpumask) ==
    /\ LET call == <<Hw("set_irq_affinity", "-", irq, cpumask)>>
           anded == cpumask \cap online
       IN  IF ~chip_affinity
           THEN /\ hwlog' = WARN_ON_ONCE("no_affinity", call)
                /\ warned' = warned \cup {"no_affinity"}
           ELSE IF anded = {}
           THEN /\ hwlog' = WARN_ON_ONCE("empty_mask", call)
                /\ warned' = warned \cup {"empty_mask"}
           ELSE /\ hwlog' = Append(call, Hw("irq_set_affinity", "-", irq, anded))
                /\ UNCHANGED warned
    /\ UNCHANGED <<irq_desc, pic_muter, chip_affinity>>

\* A CPU other than the boot CPU comes up or goes down.
cpu_hotplug(c) ==
    /\ c # ThisCpu
    /\ online' = IF c \in online THEN online \ {c} ELSE online \cup {c}
    /\ UNCHANGED <<cpc, sync_ipi, ackcount, generation, mygen, cflags, resume,
                   nextirq, opcount, nrdv>>

InitCfg ==
    /\ InitPipeIdle
    /\ control = [d \in Domains |-> [i \in IRQs |-> {}]]
    /\ hardirqs = [c \in CPUs |-> TRUE]
    /\ InitVnmiIdle
    /\ online = {ThisCpu}
    /\ InitCritIdle
    /\ InitRootIdle
    /\ irq_desc \in SUBSET IRQs
    /\ pic_muter \in [enable_irqdesc : BOOLEAN, disable_irqdesc : BOOLEAN]
    /\ chip_affinity \in BOOLEAN
    /\ hwlog = <<>>
    /\ warned = {}
    /\ InitSysIdle
    /\ InitArchIdle
    /\ sentry = [c \in CPUs |-> TRUE]

NextCfg ==
    \/ /\ \E d \in Domains, irq \in IRQs : __ipipe_enable_irqdesc(d, irq)
       /\ UNCHANGED <<pipevars, hardirqs, vnmivars, critvars, rootvars, sysvars, sentry, archvars>>
    \/ /\ \E d \in Domains, irq \in IRQs : __ipipe_disable_irqdesc(d, irq)
       /\ UNCHANGED <<pipevars, hardirqs, vnmivars, critvars, rootvars, sysvars, sentry, archvars>>
    \/ /\ \E irq \in IRQs, cpumask \in SUBSET CPUs : ipipe_set_irq_affinity(irq, cpumask)
       /\ UNCHANGED <<pipevars, hardirqs, vnmivars, critvars, rootvars, sysvars, sentry, archvars>>
    \/ /\ \E c \in CPUs : cpu_hotplug(c)
       /\ UNCHANGED <<pipevars, hardirqs, vnmivars, rootvars, extvars>>

SpecCfg == InitCfg /\ [][NextCfg]_vars

(***************************************************************************)
(* Syscall gateway and mayday: __ipipe_syscall_root, __ipipe_exit_irq at   *)
(* the end of __ipipe_grab_irq, and the notifier chain wrapper (SpecGate). *)
(***************************************************************************)
\* OABI value; 0 on EABI builds.
__NR_SYSCALL_BASE == 9437184
Scnos == {1, 2}
UserR7 == {0, 1}
\* Results of __ipipe_notify_syscall: claimed, declined (0), claimed with tail work.
NotifyResults == {-1, 0, 1}

__ipipe_syscall_watched_p(nr) == nr \in watched

\* Entry: orig_r7 = regs->ARM_r7; regs->ARM_r7 = __NR_SYSCALL_BASE + scno; ret = 0.
sys_enter(n, reg) ==
    /\ upc = "user"
    /\ rpc = "idle"
    /\ upc' = "watch"
    /\ scno' = n
    /\ orig_r7' = reg
    /\ r7' = __NR_SYSCALL_BASE + n
    /\ sret' = 0
    /\ nret' = 0
    /\ glog' = <<>>
    /\ UNCHANGED <<mayday, root_p, watched, sysret, stalled, pend, trace, hardirqs, rootvars>>

\* Variant without the fast path: every syscall is notified.
sys_watched_always ==
    /\ upc = "watch"
    /\ upc' = "notify"
    /\ UNCHANGED <<mayday, root_p, watched, scno, r7, orig_r7, sret, nret, sysret, glog,
                   stalled, pend, trace, hardirqs, rootvars>>

\* if (!__ipipe_syscall_watched_p(current, regs->ARM_r7)) goto out;
sys_watched ==
    /\ upc = "watch"
    /\ upc' = IF __ipipe_syscall_watched_p(r7) THEN "notify" ELSE "out"
    /\ UNCHANGED <<mayday, root_p, watched, scno, r7, orig_r7, sret, nret, sysret, glog,
                   stalled, pend, trace, hardirqs, rootvars>>

\* ret = __ipipe_notify_syscall(regs): the domains see the syscall; the
\* handling domain may leave the task in the head or in the root domain.
sys_notify(v, rp) ==
    /\ upc = "notify"
    /\ upc' = "irqoff"
    /\ sret' = v
    /\ nret' = v
    /\ root_p' = rp
    /\ glog' = Append(glog, "syscall")
    /\ UNCHANGED <<mayday, watched, scno, r7, orig_r7, sysret,
                   stalled, pend, trace, hardirqs, rootvars>>

\* hard_local_irq_disable();
sys_irq_disable ==
    /\ upc = "irqoff"
    /\ upc' = "mayday"
    /\ hardirqs' = [hardirqs EXCEPT ![ThisCpu] = FALSE]
    /\ UNCHANGED <<mayday, root_p, watched, scno, r7, orig_r7, sret, nret, sysret, glog,
                   stalled, pend, trace, rootvars>>

\* __ipipe_notify_trap(IPIPE_TRAP_MAYDAY, regs) as the handlers see it: called
\* with PF_MAYDAY still set in the task's flags, or already cleared.
__ipipe_notify_trap(log, flagged) ==
    Append(log, IF flagged THEN "mayday_flagged" ELSE "mayday")

\* Variant that notifies the trap before it clears the flag.
sys_mayday_notify_first(rp) ==
    /\ upc = "mayday"
    /\ upc' = "rootp"
    /\ IF mayday
       THEN /\ glog' = __ipipe_notify_trap(glog, mayday)
            /\ mayday' = FALSE
            /\ root_p' = rp
       ELSE UNCHANGED <<mayday, glog, root_p>>
    /\ UNCHANGED <<watched, scno, r7, orig_r7, sret, nret, sysret,
                   stalled, pend, trace, hardirqs, rootvars>>

\* if (current->ipipe.flags & PF_MAYDAY) { clear; __ipipe_notify_trap(IPIPE_TRAP_MAYDAY) }
\* The trap handler may move the task to another domain.
sys_mayday(rp) ==
    /\ upc = "mayday"
    /\ upc' = "rootp"
    /\ IF mayday
       THEN /\ mayday' = FALSE
            /\ glog' = __ipipe_notify_trap(glog, FALSE)
            /\ root_p' = rp
       ELSE UNCHANGED <<mayday, glog, root_p>>
    /\ UNCHANGED <<watched, scno, r7, orig_r7, sret, nret, sysret,
                   stalled, pend, trace, hardirqs, rootvars>>

\* Variant that keeps the domain's result when the CPU is not in the root domain.
sys_root_p_keep ==
    /\ upc = "rootp"
    /\ upc' = "irqon"
    /\ IF root_p /\ pend["root"] # <<>> /\ ~stalled["root"]
       THEN /\ trace' = __ipipe_sync_stage("root", pend["root"], trace)
            /\ pend' = [pend EXCEPT !["root"] = <<>>]
       ELSE UNCHANGED <<pend, trace>>
    /\ UNCHANGED <<mayday, root_p, watched, scno, r7, orig_r7, sret, nret, sysret, glog,
                   stalled, hardirqs, rootvars>>

\* if (!__ipipe_root_p) ret = -1; else if (__ipipe_ipending_p(p)) __ipipe_sync_stage();
sys_root_p ==
    /\ upc = "rootp"
    /\ upc' = "irqon"
    /\ IF ~root_p
       THEN /\ sret' = -1
            /\ UNCHANGED <<pend, trace>>
       ELSE /\ UNCHANGED sret
            /\ IF pend["root"] # <<>> /\ ~stalled["root"]
               THEN /\ trace' = __ipipe_sync_stage("root", pend["root"], trace)
                    /\ pend' = [pend EXCEPT !["root"] = <<>>]
               ELSE UNCHANGED <<pend, trace>>
    /\ UNCHANGED <<mayday, root_p, watched, scno, r7, orig_r7, nret, sysret, glog,
                   stalled, hardirqs, rootvars>>

\* hard_local_irq_enable();
sys_irq_enable ==
    /\ upc = "irqon"
    /\ upc' = "out"
    /\ hardirqs' = [hardirqs EXCEPT ![ThisCpu] = TRUE]
    /\ UNCHANGED <<mayday, root_p, watched, scno, r7, orig_r7, sret, nret, sysret, glog,
                   stalled, pend, trace, rootvars>>

\* out: regs->ARM_r7 = orig_r7; return -ret;
sys_out ==
    /\ upc = "out"
    /\ upc' = "ret"
    /\ r7' = orig_r7
    /\ sysret' = -sret
    /\ UNCHANGED <<mayday, root_p, watched, scno, orig_r7, sret, nret, glog,
                   stalled, pend, trace, hardirqs, rootvars>>

\* The rest of the syscall path (the kernel's handler when 0 was returned,
\* tail work when negative) ends and user space resumes.
sys_return ==
    /\ upc = "ret"
    /\ rpc = "idle"
    /\ upc' = "user"
    /\ UNCHANGED <<mayday, root_p, watched, scno, r7, orig_r7, sret, nret, sysret, glog,
                   stalled, pend, trace, hardirqs, rootvars>>

__ipipe_syscall_root ==
    \/ \E n \in Scnos, reg \in UserR7 : sys_enter(n, reg)
    \/ sys_watched
    \/ \E v \in NotifyResults, rp \in BOOLEAN : sys_notify(v, rp)
    \/ sys_irq_disable
    \/ \E rp \in BOOLEAN : sys_mayday(rp)
    \/ sys_root_p
    \/ sys_irq_enable
    \/ sys_out

\* Variant of __ipipe_exit_irq that tests the flag whatever mode was interrupted.
exit_irq_any_mode(raised, rp) ==
    IF mayday \/ raised
    THEN /\ mayday' = FALSE
         /\ glog' = Append(glog, "mayday")
         /\ root_p' = rp
    ELSE UNCHANGED <<mayday, glog, root_p>>

\* Variant of __ipipe_exit_irq that notifies at every exit to user mode.
exit_irq_always(raised, rp) ==
    IF upc = "user"
    THEN /\ mayday' = FALSE
         /\ glog' = __ipipe_notify_trap(glog, FALSE)
         /\ root_p' = rp
    ELSE /\ mayday' = (mayday \/ raised)
         /\ root_p' = root_p
         /\ UNCHANGED glog

\* __ipipe_exit_irq(regs), reached with PF_MAYDAY raised or not by the handlers
\* of the interrupt: user_mode(regs) holds when user space was interrupted.
__ipipe_exit_irq(raised, rp) ==
    IF upc = "user" /\ (mayday \/ raised)
    THEN /\ mayday' = FALSE
         /\ glog' = __ipipe_notify_trap(glog, FALSE)
         /\ root_p' = rp
    ELSE /\ mayday' = (mayday \/ raised)
         /\ root_p' = root_p
         /\ UNCHANGED glog

\* Variant that records the registers of every interrupt.
grab_irq_tick_regs_any(irq) ==
    /\ tick_regs' = [cpsr_i |-> IF root_p THEN ~hardirqs[ThisCpu] ELSE TRUE, pc |-> upc]
    /\ UNCHANGED hrtimer_irq

\* Head of __ipipe_grab_irq: copy regs->ARM_cpsr (with PSR_I_BIT forced when
\* the current domain is not root) and regs->ARM_pc to tick_regs, for the
\* hrtimer interrupt or when none is registered.  The I bit of the
\* interrupted context is the complement of the hardware interrupt state;
\* the pc is the interrupted position.
grab_irq_tick_regs(irq) ==
    /\ tick_regs' = IF hrtimer_irq = -1 \/ irq = hrtimer_irq
                    THEN [cpsr_i |-> IF root_p THEN ~hardirqs[ThisCpu] ELSE TRUE,
                          pc |-> upc]
                    ELSE tick_regs
    /\ UNCHANGED hrtimer_irq

\* __ipipe_grab_irq on the task's CPU: tick_regs, dispatch, then __ipipe_exit_irq.
__ipipe_grab_irq(irq, raised, rp) ==
    /\ grab_irq_tick_regs(irq)
    /\ grab_irq_dispatch(irq)
    /\ mreq' = raised
    /\ __ipipe_exit_irq(raised, rp)
    /\ UNCHANGED <<upc, watched, scno, r7, orig_r7, sret, nret, sysret>>

\* __ipipe_switch_to_notifier_call_chain: local_irq_save(flags) stalls the
\* root stage, the chain runs, __ipipe_restore_root_nosync(flags) puts the
\* stall bit back without replaying the root log.
notifier_chain_save ==
    /\ upc = "ret"
    /\ rpc = "idle"
    /\ rpc' = "chain"
    /\ rx' = stalled["root"]
    /\ stalled' = [stalled EXCEPT !["root"] = TRUE]
    /\ UNCHANGED <<rflags, rret, rirq, entry, pend, trace, hardirqs, sysvars>>

notifier_chain_restore ==
    /\ rpc = "chain"
    /\ rpc' = "idle"
    /\ rx' = FALSE
    /\ stalled' = [stalled EXCEPT !["root"] = rx]
    /\ UNCHANGED <<rflags, rret, rirq, entry, pend, trace, hardirqs, sysvars>>

__ipipe_switch_to_notifier_call_chain ==
    \/ notifier_chain_save
    \/ notifier_chain_restore

\* An interrupt line that is not one of the modelled device interrupts.
OtherIrq == 9

InitGate ==
    /\ InitPipeIdle
    /\ control \in [Domains -> [IRQs -> SUBSET ControlFlags]]
    /\ \A i \in IRQs : control["root"][i] \in RootControls
    /\ \A d \in Domains : \A i, j \in IRQs : control[d][i] = control[d][j]
    /\ hardirqs = [c \in CPUs |-> TRUE]
    /\ InitVnmiIdle
    /\ online = CPUs
    /\ InitCritIdle
    /\ InitRootIdle
    /\ InitCfgIdle
    /\ upc = "user"
    /\ mayday = FALSE
    /\ root_p \in BOOLEAN
    /\ watched \in SUBSET {__NR_SYSCALL_BASE + n : n \in Scnos}
    /\ scno = 0
    /\ r7 = 0
    /\ orig_r7 = 0
    /\ sret = 0
    /\ nret = 0
    /\ sysret = 0
    /\ glog = <<>>
    /\ sentry = [c \in CPUs |-> TRUE]
    /\ ipi_irqs = [d \in Domains |-> [v \in InternalIpis |-> NoHook]]
    /\ hrtimer_irq = OtherIrq
    /\ tick_regs = [cpsr_i |-> FALSE, pc |-> "user"]
    /\ mreq = FALSE
    /\ InitMmIdle

NextGate ==
    \/ /\ __ipipe_syscall_root
       /\ UNCHANGED <<control, vnmivars, critvars, cfgvars, sentry, archvars>>
    \/ /\ sys_return
       /\ UNCHANGED <<control, vnmivars, critvars, cfgvars, sentry, archvars>>
    \/ /\ \E irq \in IRQs, raised \in BOOLEAN, rp \in BOOLEAN : __ipipe_grab_irq(irq, raised, rp)
       /\ UNCHANGED <<vnmivars, critvars, cfgvars, sentry, ipi_irqs, mmvars>>
    \/ /\ __ipipe_switch_to_notifier_call_chain
       /\ UNCHANGED <<control, vnmivars, critvars, cfgvars, sentry, archvars>>

SpecGate == InitGate /\ [][NextGate]_vars


\* The same CPU with any hrtimer interrupt registered, or none (SpecTick).
InitTick ==
    /\ InitPipeIdle
    /\ control = [d \in Domains |-> [i \in IRQs |-> {IPIPE_HANDLE_MASK}]]
    /\ hardirqs = [c \in CPUs |-> TRUE]
    /\ InitVnmiIdle
    /\ online = CPUs
    /\ InitCritIdle
    /\ InitRootIdle
    /\ InitCfgIdle
    /\ upc = "user"
    /\ mayday = FALSE
    /\ root_p \in BOOLEAN
    /\ watched = {__NR_SYSCALL_BASE + n : n \in Scnos}
    /\ scno = 0
    /\ r7 = 0
    /\ orig_r7 = 0
    /\ sret = 0
    /\ nret = 0
    /\ sysret = 0
    /\ glog = <<>>
    /\ sentry = [c \in CPUs |-> TRUE]
    /\ ipi_irqs = [d \in Domains |-> [v \in InternalIpis |-> NoHook]]
    /\ hrtimer_irq \in IRQs \cup {-1, OtherIrq}
    /\ tick_regs = [cpsr_i |-> FALSE, pc |-> "user"]
    /\ mreq = FALSE
    /\ InitMmIdle

SpecTick == InitTick /\ [][NextGate]_vars

(***************************************************************************)
(* The internal IPIs: hook_internal_ipi, __ipipe_hook_critical_ipi, and    *)
(* their dispatch through the pipeline (SpecIpi).                          *)
(***************************************************************************)
\* Variant that hooks with HANDLE|PASS.
hook_internal_ipi_pass(ipd, virq, handler) ==
    [ackfn |-> "NULL", handler |-> handler, cookie |-> "NULL",
     control |-> {IPIPE_HANDLE_MASK, IPIPE_PASS_MASK}]

\* hook_internal_ipi(ipd, virq, handler): the new ipd->irqs[virq].
hook_internal_ipi(ipd, virq, handler) ==
    [ackfn |-> "NULL", handler |-> handler, cookie |-> "NULL",
     control |-> {IPIPE_HANDLE_MASK, IPIPE_STICKY_MASK}]

InternalHandler(virq) ==
    IF virq = IPIPE_CRITICAL_IPI THEN "__ipipe_do_critical_sync" ELSE "__ipipe_do_vnmi"

__ipipe_hook_critical_ipi(ipd) ==
    /\ LET slot(v) == hook_internal_ipi(ipd, v, InternalHandler(v))
       IN  /\ ipi_irqs' = [ipi_irqs EXCEPT ![ipd] =
                             [v \in InternalIpis |->
                                [ackfn |-> slot(v).ackfn, handler |-> slot(v).handler,
                                 cookie |-> slot(v).cookie]]]
           /\ control' = [control EXCEPT ![ipd] =
                             [i \in DOMAIN control[ipd] |->
                                IF i \in InternalIpis THEN slot(i).control
                                ELSE control[ipd][i]]]
    /\ UNCHANGED <<stalled, pend, trace, hardirqs>>

NrIpis == Cardinality({k \in 1 .. Len(trace) : trace[k].ev = "ipi"})

\* An internal IPI is taken: it enters the pipeline without acknowledge.
grab_ipi(virq) ==
    /\ NrIpis < MaxRaise
    /\ hardirqs[ThisCpu]
    /\ LET out == __ipipe_dispatch_irq(virq, {IPIPE_IRQF_NOACK}, pend,
                                       Append(trace, Ev("ipi", "-", virq)))
       IN  /\ pend' = out.pend
           /\ trace' = out.trace
    /\ UNCHANGED <<stalled, control, hardirqs, ipi_irqs>>

\* Slots as another user left them: unhooked, or hooked to be handled and passed on.
UnhookedControls == {{}, {IPIPE_HANDLE_MASK, IPIPE_PASS_MASK}}
OldHook == [ackfn |-> "ack", handler |-> "old", cookie |-> "old"]

InitIpi ==
    /\ InitPipeIdle
    /\ \E ctl \in [Domains -> UnhookedControls] :
          control = [d \in Domains |-> [i \in IRQs \cup InternalIpis |->
                                          IF i \in InternalIpis THEN ctl[d] ELSE {}]]
    /\ hardirqs = [c \in CPUs |-> TRUE]
    /\ InitVnmiIdle
    /\ online = CPUs
    /\ InitCritIdle
    /\ InitRootIdle
    /\ InitCfgIdle
    /\ InitSysIdle
    /\ sentry = [c \in CPUs |-> TRUE]
    /\ \E h \in {NoHook, OldHook} :
          ipi_irqs = [d \in Domains |-> [v \in InternalIpis |-> h]]
    /\ hrtimer_irq = -1
    /\ tick_regs = [cpsr_i |-> FALSE, pc |-> "user"]
    /\ mreq = FALSE
    /\ InitMmIdle

NextIpi ==
    \/ /\ \E ipd \in Domains : __ipipe_hook_critical_ipi(ipd)
       /\ UNCHANGED <<vnmivars, critvars, rootvars, cfgvars, sysvars, sentry, tickvars,
                      mreq, mmvars>>
    \/ /\ \E v \in InternalIpis : grab_ipi(v)
       /\ UNCHANGED <<vnmivars, critvars, rootvars, cfgvars, sysvars, sentry, tickvars,
                      mreq, mmvars>>
    \/ /\ ipipe_stall_root
       /\ UNCHANGED <<vnmivars, critvars, rootvars, extvars>>
    \/ /\ ipipe_stall_head
       /\ UNCHANGED <<vnmivars, critvars, rootvars, extvars>>
    \/ /\ \E d \in Domains : unstall_and_sync(d)
       /\ UNCHANGED <<vnmivars, critvars, rootvars, extvars>>

SpecIpi == InitIpi /\ [][NextIpi]_vars

(***************************************************************************)
(* Preemptible mm switch: __switch_mm_inner and deferred_switch_mm with    *)
(* CONFIG_IPIPE_WANT_PREEMPTIBLE_SWITCH (SpecMm).                          *)
(***************************************************************************)
MmFunctions == {"__switch_mm_inner", "deferred_switch_mm"}
\* Results of __do_switch_mm: deferred (negative) or done.
SwitchResults == {-1, 0}

\* Entry: *active_mm = NULL; barrier();
switch_mm_call(fn, prev, next) ==
    /\ mpc = "idle"
    /\ mpc' = "switch"
    /\ mfn' = fn
    /\ mprev' = IF fn = "__switch_mm_inner" THEN prev ELSE NoMm
    /\ mnext' = next
    /\ active_mm' = NoMm
    /\ UNCHANGED <<tif_mmswitch, mrc, mflags, hardirqs>>

\* rc = __do_switch_mm(prev, next, tsk, true);  or  __deferred_switch_mm(next);
switch_mm_do(rc) ==
    /\ mpc = "switch"
    /\ mpc' = "save"
    /\ mrc' = IF mfn = "__switch_mm_inner" THEN rc ELSE 0
    /\ UNCHANGED <<active_mm, tif_mmswitch, mfn, mprev, mnext, mflags, hardirqs>>

\* flags = hard_local_irq_save();
switch_mm_save ==
    /\ mpc = "save"
    /\ mpc' = "test"
    /\ mflags' = hardirqs[ThisCpu]
    /\ hardirqs' = [hardirqs EXCEPT ![ThisCpu] = FALSE]
    /\ UNCHANGED <<active_mm, tif_mmswitch, mfn, mprev, mnext, mrc>>

\* Variant that writes active_mm and returns whatever the flag was.
switch_mm_test_noretry ==
    /\ mpc = "test"
    /\ tif_mmswitch' = FALSE
    /\ active_mm' = IF mfn = "__switch_mm_inner" /\ mrc < 0 THEN mprev ELSE mnext
    /\ mpc' = "restore_ret"
    /\ UNCHANGED <<mfn, mprev, mnext, mrc, mflags, hardirqs>>

\* if (__test_and_clear_bit(TIF_MMSWITCH_INT, &tip->flags) == 0)
\*         *active_mm = rc < 0 ? prev : next;   (next in deferred_switch_mm)
switch_mm_test ==
    /\ mpc = "test"
    /\ tif_mmswitch' = FALSE
    /\ IF ~tif_mmswitch
       THEN /\ active_mm' = IF mfn = "__switch_mm_inner" /\ mrc < 0 THEN mprev ELSE mnext
            /\ mpc' = "restore_ret"
       ELSE /\ mpc' = "restore_loop"
            /\ UNCHANGED active_mm
    /\ UNCHANGED <<mfn, mprev, mnext, mrc, mflags, hardirqs>>

\* hard_local_irq_restore(flags); return;
switch_mm_return ==
    /\ mpc = "restore_ret"
    /\ hardirqs' = [hardirqs EXCEPT ![ThisCpu] = mflags]
    /\ mpc' = "idle"
    /\ mfn' = "-"
    /\ mprev' = NoMm
    /\ mnext' = NoMm
    /\ mrc' = 0
    /\ mflags' = TRUE
    /\ UNCHANGED <<active_mm, tif_mmswitch>>

\* hard_local_irq_restore(flags); prev = NULL;  and around the loop.
switch_mm_again ==
    /\ mpc = "restore_loop"
    /\ hardirqs' = [hardirqs EXCEPT ![ThisCpu] = mflags]
    /\ mpc' = "switch"
    /\ mprev' = NoMm
    /\ UNCHANGED <<active_mm, tif_mmswitch, mfn, mnext, mrc, mflags>>

__switch_mm_inner ==
    \/ \E prev \in Mms \cup {NoMm}, next \in Mms : switch_mm_call("__switch_mm_inner", prev, next)
    \/ /\ mfn = "__switch_mm_inner"
       /\ \/ \E rc \in SwitchResults : switch_mm_do(rc)
          \/ switch_mm_save
          \/ switch_mm_test
          \/ switch_mm_return
          \/ switch_mm_again

deferred_switch_mm ==
    \/ \E next \in Mms : switch_mm_call("deferred_switch_mm", NoMm, next)
    \/ /\ mfn = "deferred_switch_mm"
       /\ \/ \E rc \in SwitchResults : switch_mm_do(rc)
          \/ switch_mm_save
          \/ switch_mm_test
          \/ switch_mm_return
          \/ switch_mm_again

\* A higher-priority domain preempts the CPU (hardware interrupts on) and
\* switches the address space: finding active_mm NULL it marks the
\* interrupted thread with TIF_MMSWITCH_INT.
mm_preempt ==
    /\ hardirqs[ThisCpu]
    /\ active_mm = NoMm
    /\ tif_mmswitch' = TRUE
    /\ UNCHANGED <<active_mm, mpc, mfn, mprev, mnext, mrc, mflags, hardirqs>>

\* The scheduler calls with hardware interrupts on or off.
mm_caller_irqs ==
    /\ mpc = "idle"
    /\ hardirqs' = [hardirqs EXCEPT ![ThisCpu] = ~@]
    /\ UNCHANGED mmvars

InitMm ==
    /\ InitPipeIdle
    /\ control = [d \in Domains |-> [i \in IRQs |-> {}]]
    /\ hardirqs = [c \in CPUs |-> TRUE]
    /\ InitVnmiIdle
    /\ online = CPUs
    /\ InitCritIdle
    /\ InitRootIdle
    /\ InitCfgIdle
    /\ InitSysIdle
    /\ sentry = [c \in CPUs |-> TRUE]
    /\ ipi_irqs = [d \in Domains |-> [v \in InternalIpis |-> NoHook]]
    /\ hrtimer_irq = -1
    /\ tick_regs = [cpsr_i |-> FALSE, pc |-> "user"]
    /\ mreq = FALSE
    /\ active_mm \in Mms
    /\ tif_mmswitch = FALSE
    /\ mpc = "idle"
    /\ mfn = "-"
    /\ mprev = NoMm
    /\ mnext = NoMm
    /\ mrc = 0
    /\ mflags = TRUE

MmFrame ==
    UNCHANGED <<pipevars, vnmivars, critvars, rootvars, cfgvars, sysvars, sentry,
                ipi_irqs, tickvars, mreq>>

NextMm ==
    \/ __switch_mm_inner /\ MmFrame
    \/ deferred_switch_mm /\ MmFrame
    \/ mm_preempt /\ MmFrame
    \/ mm_caller_irqs /\ MmFrame

SpecMm == InitMm /\ [][NextMm]_vars

(***************************************************************************)
(* Properties of the pipeline (specification Spec).                        *)
(***************************************************************************)
Min(S) == CHOOSE x \in S : \A y \in S : x <= y
Max(S) == CHOOSE x \in S : \A y \in S : x >= y
Rank(d) == CHOOSE k \in 1 .. Len(Pipeline) : Pipeline[k] = d

IsRaise(k, i) == trace[k].ev = "raise" /\ trace[k].irq = i
IsDeliv(k, d, i) == trace[k].ev = "handler" /\ trace[k].dom = d /\ trace[k].irq = i

\* Domain d has a handler for IRQ i and every domain above d lets i through
\* in both of its stall states, so that each raise of i is evaluated in d.
Sees(d, i) ==
    /\ IPIPE_HANDLE_MASK \in control[d][i]
    /\ \A k \in 1 .. (Rank(d) - 1) :
          /\ IPIPE_PASS_MASK \in control[Pipeline[k]][i]
          /\ IPIPE_STICKY_MASK \notin control[Pipeline[k]][i]

\* The IRQs, in order, of the events of the trace that satisfy Keep.
RECURSIVE IrqsOf(_, _, _)
IrqsOf(tr, d, e) ==
    IF tr = <<>> THEN <<>>
    ELSE LET h == Head(tr)
         IN  IF h.ev = e /\ Sees(d, h.irq) /\ (e = "handler" => h.dom = d)
             THEN <<h.irq>> \o IrqsOf(Tail(tr), d, e)
             ELSE IrqsOf(Tail(tr), d, e)

Deliveries(d) == {j \in 1 .. Len(trace) : \E i \in IRQs : Sees(d, i) /\ IsDeliv(j, d, i)}

\* The raise that delivery j to d answers: the first raise of its IRQ since
\* the previous delivery of that IRQ to d (0 if there is none).
OriginIn(tr, d, j) ==
    LET i == tr[j].irq
        prev == Max({0} \cup {m \in 1 .. (j - 1) : tr[m] = Ev("handler", d, i)})
        cands == {k \in (prev + 1) .. (j - 1) : tr[k] = Ev("raise", "-", i)}
    IN  IF cands = {} THEN 0 ELSE Min(cands)
Origin(d, j) == OriginIn(trace, d, j)

C1_Inv ==
    \A d \in Domains :
       /\ \A j \in Deliveries(d) : Origin(d, j) # 0
       /\ \A j1, j2 \in Deliveries(d) : j1 < j2 => Origin(d, j1) < Origin(d, j2)
       /\ \A i \in IRQs : Sees(d, i) =>
             /\ \A k \in 1 .. Len(trace) : IsRaise(k, i) =>
                   \/ \E j \in (k + 1) .. Len(trace) : IsDeliv(j, d, i)
                   \/ \E n \in 1 .. Len(pend[d]) : pend[d][n] = i
             /\ (\E n \in 1 .. Len(pend[d]) : pend[d][n] = i) => stalled[d]

C1_Act ==
    \A d \in Domains :
        (stalled[d] /\ stalled'[d]) => IrqsOf(trace', d, "handler") = IrqsOf(trace, d, "handler")

\* C1 (as amended): on one CPU, for a domain that handles an IRQ and is
\* reached by it, every raise of the IRQ is answered by a delivery to the
\* domain's handler; a raise made while the IRQ is already pending for the
\* stalled domain is coalesced into the one pending delivery, otherwise each
\* raise is delivered exactly once; deliveries follow the order of the raises
\* they answer; and no delivery is made to a domain while it stays stalled.
C1_Delivery == [](C1_Inv) /\ [][C1_Act]_vars

\* C1 as stated: once the domain is unstalled, the IRQs delivered to it are
\* exactly the IRQs raised, one delivery per raise, in the order raised.
C1_ExactlyOncePerRaise ==
    \A d \in Domains :
        ~stalled[d] => IrqsOf(trace, d, "handler") = IrqsOf(trace, d, "raise")

\* IRQ 7 then IRQ 5 were raised while head was stalled and both were
\* delivered, in that order, by the unstall.
C1_Witness ==
    /\ Sees("head", 5) /\ Sees("head", 7)
    /\ ~stalled["head"]
    /\ Len(trace) >= 4
    /\ trace[1] = Ev("raise", "-", 7)
    /\ trace[2] = Ev("raise", "-", 5)
    /\ trace[3] = Ev("handler", "head", 7)
    /\ trace[4] = Ev("handler", "head", 5)

\* The events a step appends to the trace.
NewEvents == SubSeq(trace', Len(trace) + 1, Len(trace'))
RaiseStep(i) == Len(trace') > Len(trace) /\ trace'[Len(trace) + 1] = Ev("raise", "-", i)

C9_Act ==
    /\ ( /\ RaiseStep(5)
         /\ control["head"][5] = {IPIPE_HANDLE_MASK, IPIPE_PASS_MASK}
         /\ IPIPE_HANDLE_MASK \in control["root"][5]
         /\ ~stalled["head"] /\ ~stalled["root"] )
       => NewEvents = <<Ev("raise", "-", 5), Ev("handler", "head", 5),
                        Ev("handler", "root", 5)>>
    /\ \A j \in (Len(trace) + 1) .. Len(trace') :
          trace'[j].ev = "handler" =>
             \A h \in Domains :
                ( /\ Rank(h) < Rank(trace'[j].dom)
                  /\ ~stalled[h]
                  /\ IPIPE_HANDLE_MASK \in control[h][trace'[j].irq] )
                => \E n \in (OriginIn(trace', trace'[j].dom, j) + 1) .. (j - 1) :
                       trace'[n] = Ev("handler", h, trace'[j].irq)

\* C9: with IRQ 5 set to HANDLE|PASS in head and handled in root, raising
\* IRQ 5 while both are unstalled runs head's handler, then root's handler;
\* and whenever a domain's handler runs for an IRQ, every unstalled domain of
\* higher priority that handles this IRQ has run its handler for it before.
C9_PriorityOrder == [][C9_Act]_vars

C9_Witness ==
    /\ control["head"][5] = {IPIPE_HANDLE_MASK, IPIPE_PASS_MASK}
    /\ Len(trace) >= 3
    /\ trace[Len(trace) - 2] = Ev("raise", "-", 5)
    /\ trace[Len(trace) - 1] = Ev("handler", "head", 5)
    /\ trace[Len(trace)] = Ev("handler", "root", 5)

C10_Act ==
    /\ \A i \in IRQs :
          ( /\ RaiseStep(i)
            /\ stalled["head"]
            /\ IPIPE_STICKY_MASK \in control["head"][i] )
          => /\ NewEvents = <<Ev("raise", "-", i)>>
             /\ \E n \in 1 .. Len(pend'["head"]) : pend'["head"][n] = i
             /\ pend'["root"] = pend["root"]
    /\ (stalled["head"] /\ ~stalled'["head"])
          => \A j \in (Len(trace) + 1) .. Len(trace') : trace'[j].dom = "head"

\* C10: an IRQ whose control in head has STICKY set, raised while head is
\* stalled, is logged pending for head and dispatch stops there: root neither
\* runs its handler nor logs the IRQ; and the deferred processing run when
\* head unstalls invokes head's handlers only.
C10_StickyBlocks == [][C10_Act]_vars

C10_Witness ==
    /\ stalled["head"]
    /\ IPIPE_STICKY_MASK \in control["head"][7]
    /\ IPIPE_HANDLE_MASK \in control["root"][7]
    /\ pend["head"] = <<7>>
    /\ trace = <<Ev("raise", "-", 7), Ev("raise", "-", 7)>>

(***************************************************************************)
(* Properties of the virtual-NMI broadcast (SpecVnmi, FairVnmi).           *)
(***************************************************************************)
Targets(s) == req[s] \ {s}

\* C2: for a call of __ipipe_send_vnmi on CPU s with mask req[s], fn runs at
\* most once on a CPU, only on CPUs of the mask, never on s itself, and when
\* the call returns fn has run exactly once on every CPU of the mask but s.
C2_ExactlyOnce ==
    \A s \in CPUs :
       /\ ran[s][s] = 0
       /\ \A t \in CPUs : ran[s][t] <= 1 /\ (ran[s][t] = 1 => t \in Targets(s))
       /\ spc[s] = "ret" => \A t \in Targets(s) : ran[s][t] = 1

C2_Witness ==
    \E s \in CPUs :
       /\ spc[s] = "ret"
       /\ req[s] = CPUs
       /\ \A t \in CPUs \ {s} : ran[s][t] = 1

C3_Inv ==
    /\ Cardinality({c \in CPUs : spc[c] \in Holding}) <= 1
    /\ \A c \in CPUs : spc[c] \in Holding => vnmi_lock = c
    /\ vnmi_data # NoCpu => vnmi_lock = vnmi_data

C3_Act == (vnmi_data # NoCpu /\ desc[vnmi_data] # {}) => vnmi_data' = vnmi_data

\* C3: at most one CPU is between taking and releasing __ipipe_vnmi.lock,
\* the published descriptor belongs to that CPU, and it is not replaced or
\* withdrawn while one of its target bits is still set.
C3_OneBroadcast == [](C3_Inv) /\ [][C3_Act]_vars

C3_Witness ==
    \E x, y \in CPUs :
       /\ x # y
       /\ spc[x] = "wait" /\ vnmi_data = x /\ desc[x] # {}
       /\ spc[y] = "trylock"

C4_Inv ==
    /\ (\A c \in CPUs : spc[c] \notin {"ipi", "wait", "withdraw"}) => vnmi_data = NoCpu
    /\ \A c \in CPUs : spc[c] \in {"ret", "idle"} => vnmi_data # c

C4_Act == (vnmi_data # NoCpu /\ vnmi_data' = NoCpu) => desc[vnmi_data] = {}

\* C4: __ipipe_vnmi.data is NULL whenever no CPU is between the publication
\* and the withdrawal of __ipipe_send_vnmi, in particular once the publishing
\* call has returned; and it is set to NULL only when the mask is empty.
C4_Withdrawn == [](C4_Inv) /\ [][C4_Act]_vars

C4_Witness ==
    \E s \in CPUs :
       /\ spc[s] = "unlock"
       /\ vnmi_data = NoCpu
       /\ \E t \in CPUs : ran[s][t] = 1

Spinning(y) == spc[y] = "trylock" /\ ~hardirqs[y] /\ ~inirq[y]

\* C5: if some CPU holds the broadcast lock with CPU y in its mask while y
\* spins for the lock in __ipipe_send_vnmi with hardware interrupts
\* disabled, then y acquires the lock (hence the holder's broadcast, which
\* needed y to run fn and clear its bit from the retry loop, has completed).
C5_NoSelfDeadlock ==
    \A y \in CPUs :
        (Spinning(y) /\ vnmi_lock \notin {y, NoCpu} /\ y \in desc[vnmi_lock])
            ~> (spc[y] = "locked")

\* y runs x's fn from inside its retry loop.
C5_Witness ==
    \E x, y \in CPUs :
       /\ x # y
       /\ spc[x] = "wait"
       /\ Spinning(y)
       /\ vpc[y] = "clear" /\ vdata[y] = x /\ ran[x][y] = 1

(***************************************************************************)
(* Properties of the critical rendezvous (SpecCrit, FairCrit).             *)
(***************************************************************************)
Blocked(o) == cpc[o] = "spin" /\ ~hardirqs[o]
OthersBlocked(c) == \A o \in online \ {c} : Blocked(o)
OpFinished(c) == cpc[c] = "crit" /\ nextirq[c] = Len(RootIrqs) + 1

C6_Inv ==
    \A c \in CPUs :
       /\ cpc[c] \in {"crit", "exit"} => OthersBlocked(c)
       /\ \A i \in IRQs : opcount[c][i] <= 1
       /\ cpc[c] \in {"exit", "ret"} => \A i \in IRQs : opcount[c][i] = 1

C6_Act ==
    \A c \in CPUs :
        (opcount'[c] # opcount[c] /\ opcount'[c] # NoOps)
            => (cpc[c] = "crit" /\ OthersBlocked(c) /\ cpc'[c] = "crit" /\ OthersBlocked(c)')

\* C6: with N CPUs online, the exclusive operation of __ipipe_enable_pipeline
\* (one ipipe_request_irq per root interrupt) runs exactly once between
\* critical_enter and critical_exit, and from critical_enter's return to
\* critical_exit every other online CPU is blocked in the rendezvous spin
\* with hardware interrupts off (so none is in interrupt dispatch).
C6_Exclusive == [](C6_Inv) /\ [][C6_Act]_vars

C6_Witness ==
    \E c \in CPUs :
       /\ online = CPUs
       /\ cpc[c] = "exit"
       /\ \A i \in IRQs : opcount[c][i] = 1
       /\ OthersBlocked(c)

C7_Inv ==
    \A c \in CPUs : cpc[c] = "wait" => (opcount[c] = NoOps /\ nextirq[c] = 1)

C7_Act ==
    \A c \in CPUs :
        (cpc[c] = "wait" /\ cpc'[c] # "wait")
            => /\ cpc'[c] = "crit"
               /\ ackcount = Cardinality(online) - 1
               /\ \A o \in online \ {c} : cpc[o] = "spin" /\ mygen[o] = generation

\* C7: the initiator leaves critical_enter only when every other online CPU
\* has acknowledged (is counted and spinning in the current generation), and
\* it has not started the exclusive operation before.
C7_EntryBarrier == [](C7_Inv) /\ [][C7_Act]_vars

C7_Witness ==
    \E c \in CPUs :
       /\ online = CPUs
       /\ cpc[c] = "crit" /\ nextirq[c] = 1
       /\ ackcount = Cardinality(online) - 1

C8_Act ==
    \A w \in CPUs :
        (cpc[w] = "spin" /\ cpc'[w] # "spin")
            => /\ cpc'[w] = resume[w]
               /\ hardirqs'[w]
               /\ generation # mygen[w]
               /\ \A i \in CPUs : cpc[i] \notin {"crit", "exit"}

\* C8: once the initiator has finished the exclusive operation and calls
\* critical_exit, every waiting CPU eventually leaves the spin; a waiter
\* leaves the spin only after critical_exit, and resumes the execution the
\* IPI interrupted with hardware interrupts enabled again.
C8_Release ==
    /\ \A w \in CPUs :
          (cpc[w] = "spin" /\ \E i \in CPUs : OpFinished(i)) ~> (cpc[w] # "spin")
    /\ [][C8_Act]_vars

C8_Witness ==
    \E i, w \in CPUs :
       /\ online = CPUs
       /\ cpc[i] = "ret"
       /\ generation = mygen[w] + 1
       /\ cpc[w] = "run" /\ hardirqs[w]
       /\ \E o \in CPUs : cpc[o] = "spin"

(***************************************************************************)
(* Properties of dispatch and of the root stall operations (SpecRoot).     *)
(***************************************************************************)
\* The step lets IRQ i enter dispatch, raised by software or from a device.
EntryStep(i) ==
    /\ Len(trace') > Len(trace)
    /\ trace'[Len(trace) + 1].ev \in {"raise", "hwirq"}
    /\ trace'[Len(trace) + 1].irq = i

\* Number of events e of the step.
NrNew(e) == Cardinality({j \in (Len(trace) + 1) .. Len(trace') : trace'[j] = e})

\* The step touches domain l: runs its handler, logs into it or reports there.
Touches(l) ==
    \/ \E j \in (Len(trace) + 1) .. Len(trace') : trace'[j].dom = l
    \/ pend'[l] # pend[l]

C11_Act ==
    \A i \in IRQs : EntryStep(i) =>
       /\ ( /\ ~stalled["head"]
            /\ IPIPE_HANDLE_MASK \in control["head"][i]
            /\ IPIPE_PASS_MASK \notin control["head"][i] )
          => /\ NrNew(Ev("handler", "head", i)) = 1
             /\ ~Touches("root")
             /\ pend' = pend
       /\ \A d \in Domains :
             /\ NrNew(Ev("handler", d, i)) <= 1
             /\ ( /\ NrNew(Ev("handler", d, i)) = 1
                  /\ \E l \in Domains : Rank(l) > Rank(d) /\ Touches(l) )
                => IPIPE_PASS_MASK \in control[d][i]

\* C11: when an IRQ enters dispatch and the head domain is unstalled with
\* HANDLE set and PASS clear for it, the head handler runs exactly once and
\* no lower domain is touched (no handler, no pending entry, no report); and
\* for every control combination a dispatch runs a domain's handler at most
\* once and goes on to a lower domain after it only if PASS is set there.
C11_HandleAndStop == [][C11_Act]_vars

C11_Witness ==
    /\ control["head"][7] = {IPIPE_HANDLE_MASK}
    /\ IPIPE_HANDLE_MASK \in control["root"][7]
    /\ ~stalled["head"] /\ ~stalled["root"]
    /\ trace = <<Ev("hwirq", "-", 7), Ev("ack", "-", 7), Ev("handler", "head", 7)>>

\* IRQ i is in the pending log.
InLog(log, i) == \E n \in 1 .. Len(log) : log[n] = i
\* The log after IRQ i was marked pending in it.
Marked(log, i) == IF InLog(log, i) THEN log ELSE log \o <<i>>

C12_Act ==
    \A i \in IRQs :
       ( /\ EntryStep(i)
         /\ stalled["head"]
         /\ IPIPE_STICKY_MASK \notin control["head"][i] )
       => /\ pend'["head"] = Marked(pend["head"], i)
          /\ NrNew(Ev("handler", "head", i)) = 0
          /\ IF stalled["root"]
             THEN /\ pend'["root"] = Marked(pend["root"], i)
                  /\ NrNew(Ev("handler", "root", i)) = 0
             ELSE /\ pend'["root"] = pend["root"]
                  /\ IF IPIPE_HANDLE_MASK \in control["root"][i]
                     THEN NrNew(Ev("handler", "root", i)) = 1
                     ELSE NrNew(Ev("spurious", "root", i)) = 1

\* C12: when an IRQ enters dispatch while head is stalled and its control in
\* head lacks STICKY, the IRQ is marked pending in head's log, head's handler
\* does not run, and dispatch goes on to root, which is evaluated in the same
\* dispatch: it logs the IRQ if stalled, else runs its handler or reports the
\* IRQ as unhandled.
C12_StalledContinues == [][C12_Act]_vars

\* IRQ 7 is pending for the stalled head and was handled by root in the
\* same dispatch.
C12_Witness ==
    /\ stalled["head"] /\ ~stalled["root"]
    /\ IPIPE_STICKY_MASK \notin control["head"][7]
    /\ pend["head"] = <<7>>
    /\ trace = <<Ev("raise", "-", 7), Ev("handler", "root", 7)>>

C13_Inv ==
    \A d \in Domains :
       \A m, n \in 1 .. Len(pend[d]) : pend[d][m] = pend[d][n] => m = n

C13_Act ==
    \A i \in IRQs : \A d \in Domains :
       (EntryStep(i) /\ stalled[d] /\ InLog(pend[d], i)) => pend'[d] = pend[d]

\* C13: in every reachable state each pending log holds an IRQ number at
\* most once, and a dispatch of an IRQ that is already pending for a stalled
\* domain leaves that domain's log as it was.
C13_Coalescing == [](C13_Inv) /\ [][C13_Act]_vars

\* IRQ 7 came from the device and was raised again while head was stalled:
\* the log holds it once.
C13_Witness ==
    /\ stalled["head"]
    /\ pend["head"] = <<7>>
    /\ trace = <<Ev("hwirq", "-", 7), Ev("ack", "-", 7), Ev("raise", "-", 7)>>

\* Number of events e in the trace.
NrEv(e) == Cardinality({k \in 1 .. Len(trace) : trace[k] = e})

C14_Inv == \A i \in IRQs : NrEv(Ev("ack", "-", i)) = NrEv(Ev("hwirq", "-", i))

C14_Act ==
    \A i \in IRQs :
       (Len(trace') > Len(trace) /\ trace'[Len(trace) + 1] = Ev("hwirq", "-", i))
       => /\ NrNew(Ev("ack", "-", i)) = 1
          /\ \A j \in IRQs \ {i} : NrNew(Ev("ack", "-", j)) = 0

\* C14: a device interrupt entering dispatch (flags without NOACK) has its
\* ack callback invoked exactly once in that dispatch, whatever domains are
\* stalled and also when a stalled STICKY head stops the dispatch; and
\* nothing else ever acknowledges, so at any time each IRQ was acknowledged as
\* many times as it came from the device.
C14_AckOnce == [](C14_Inv) /\ [][C14_Act]_vars

\* A device interrupt was stopped by the stalled STICKY head and acknowledged;
\* the later unstall replayed it without a second acknowledge.
C14_Witness ==
    /\ IPIPE_STICKY_MASK \in control["head"][7]
    /\ IPIPE_HANDLE_MASK \in control["head"][7]
    /\ ~stalled["head"]
    /\ trace = <<Ev("hwirq", "-", 7), Ev("ack", "-", 7), Ev("handler", "head", 7)>>
    /\ IPIPE_PASS_MASK \in control["head"][7]

C15_Inv == rpc \in {"raise_dispatch", "raise_restore"} => ~hardirqs[ThisCpu]

C15_Act ==
    \A i \in IRQs :
       (Len(trace') > Len(trace) /\ trace'[Len(trace) + 1] = Ev("raise", "-", i))
       => LET hw == __ipipe_dispatch_irq(i, {}, pend, <<>>)
          IN  /\ \A j \in (Len(trace) + 1) .. Len(trace') : trace'[j].ev # "ack"
              /\ Head(hw.trace) = Ev("ack", "-", i)
              /\ Tail(NewEvents) = Tail(hw.trace)
              /\ pend' = hw.pend
              /\ (~stalled["head"] /\ IPIPE_HANDLE_MASK \in control["head"][i])
                    => (Len(NewEvents) >= 2 /\ NewEvents[2] = Ev("handler", "head", i))
              /\ ~hardirqs[ThisCpu] /\ ~hardirqs'[ThisCpu]

\* C15: the dispatch made by ipipe_raise_irq starts at the head domain and
\* has the effect the dispatch of the same IRQ from the device would have in
\* the same state (same handlers run, same logs), except that no ack callback
\* is invoked; and hardware interrupts are off on the local CPU from the save
\* until the restore, hence during the whole dispatch.
C15_RaiseNoAck == [](C15_Inv) /\ [][C15_Act]_vars

\* ipipe_raise_irq(5), called with hardware interrupts on, has dispatched to
\* head's handler and is about to restore the interrupt state.
C15_Witness ==
    /\ rpc = "raise_restore"
    /\ entry.hw /\ ~hardirqs[ThisCpu]
    /\ trace = <<Ev("raise", "-", 5), Ev("handler", "head", 5)>>

\* Dispatch of IRQ i reaches root, finds it unstalled and without a handler.
FallsThroughRoot(i) ==
    /\ \/ stalled["head"] /\ IPIPE_STICKY_MASK \notin control["head"][i]
       \/ ~stalled["head"] /\ IPIPE_PASS_MASK \in control["head"][i]
    /\ ~stalled["root"]
    /\ IPIPE_HANDLE_MASK \notin control["root"][i]

C16_Act ==
    \A i \in IRQs : EntryStep(i) =>
       /\ \/ \E d \in Domains : NrNew(Ev("handler", d, i)) >= 1
          \/ \E d \in Domains : InLog(pend'[d], i)
          \/ NrNew(Ev("spurious", "root", i)) >= 1
       /\ NrNew(Ev("spurious", "root", i)) = IF FallsThroughRoot(i) THEN 1 ELSE 0

\* C16: every IRQ entering dispatch ends with a domain handler invoked, or
\* with the IRQ pending in some domain's log, or with the IRQ counted and
\* reported as unhandled; and an IRQ that falls through the root domain with
\* no handler there is reported as unhandled, exactly once, and only then.
C16_NoLostIrq == [][C16_Act]_vars

\* A device interrupt that no domain handles was reported.
C16_Witness ==
    /\ control["head"][5] = {IPIPE_PASS_MASK}
    /\ trace = <<Ev("hwirq", "-", 5), Ev("ack", "-", 5), Ev("spurious", "root", 5)>>

\* Positions inside ipipe_stall_root.
StallPos == {"stall_read", "stall_write", "stall_restore"}

C17_Act ==
    /\ ((rpc \in StallPos \/ rpc' \in StallPos) /\ stalled["root"])
          => /\ stalled' = stalled
             /\ pend' = pend
             /\ control' = control
             /\ trace' = trace
    /\ (rpc = "stall_restore" /\ rpc' = "idle")
          => /\ stalled'["root"]
             /\ entry.stall => hardirqs' = [hardirqs EXCEPT ![ThisCpu] = entry.hw]
             /\ rret' = rret

\* C17: from its first statement to its return, ipipe_stall_root called with
\* the root domain already stalled changes neither a stall flag, nor a pending
\* log, nor a control word, nor delivers anything, and it returns with the
\* hardware interrupt state of its entry; every call returns with the flag
\* set, so a second stall finds and leaves the state of the first.
C17_IdempotentStall == [][C17_Act]_vars

\* ipipe_stall_root was called with root stalled and IRQ 7 pending for it, has
\* executed __set_bit and is about to return.
C17_Witness ==
    /\ rpc = "stall_restore"
    /\ entry.stall
    /\ stalled["root"]
    /\ pend["root"] = <<7>>

\* Positions of ipipe_stall_root and ipipe_test_and_stall_root between the
\* save and the restore of the hardware interrupt state; in the last two of
\* each the status word has been read and not yet written back.
MaskedPos == {"stall_read", "stall_write", "stall_restore",
              "tas_read", "tas_write", "tas_restore"}
UpdatePos == {"stall_write", "tas_write"}

C18_Inv == rpc \in MaskedPos => ~hardirqs[ThisCpu]

C18_Act ==
    /\ rpc \in MaskedPos => (trace' = trace /\ pend' = pend)
    /\ rpc \in UpdatePos
          => /\ stalled["root"] = rx
             /\ stalled' = [stalled EXCEPT !["root"] = TRUE]
             /\ rpc' # rpc

\* C18: in ipipe_stall_root and ipipe_test_and_stall_root hardware
\* interrupts are off on the local CPU from the save to the restore; no
\* interrupt is dispatched on that CPU in between, so when the stall bit is
\* written back the status word still has the value that was read and the
\* only step taken from there is the write of that value with the bit set.
C18_AtomicStall == [](C18_Inv) /\ [][C18_Act]_vars

\* ipipe_test_and_stall_root, called with hardware interrupts on and root
\* unstalled, has read the status word and not yet written it, while a device
\* interrupt could still arrive.
C18_Witness ==
    /\ rpc = "tas_write"
    /\ entry.hw /\ ~hardirqs[ThisCpu]
    /\ ~rx /\ ~stalled["root"]
    /\ NrEntered < MaxRaise

TasPos == {"tas_read", "tas_write", "tas_restore"}
TestPos == {"test_bit", "test_restore"}

C19_Act ==
    /\ (rpc = "tas_restore" /\ rpc' = "idle")
          => /\ rret' = <<entry.stall>>
             /\ stalled'["root"]
    /\ (rpc \in TasPos \/ rpc' \in TasPos)
          => (pend' = pend /\ stalled'["head"] = stalled["head"])
    /\ (rpc = "test_restore" /\ rpc' = "idle")
          => /\ rret' = <<stalled'["root"]>>
             /\ stalled'["root"] = entry.stall
    /\ (rpc \in TestPos \/ rpc' \in TestPos)
          => (pend' = pend /\ stalled' = stalled)

\* C19: ipipe_test_and_stall_root returns the value the root stall flag had
\* when it was called and returns with the flag set, leaving the pending logs
\* alone; ipipe_test_root returns the value the flag has, and no step of it
\* changes a stall flag or a pending log.
C19_TestAndStall == [][C19_Act]_vars

\* ipipe_test_and_stall_root was called with root unstalled: it returned 0
\* and root is stalled.
C19_Witness ==
    /\ rpc = "idle"
    /\ rret = <<FALSE>>
    /\ stalled["root"]
    /\ trace = <<>>

RestorePos == {"stall_restore", "tas_restore", "test_restore", "raise_restore"}

C20_Act ==
    (rpc \in RestorePos /\ rpc' = "idle")
       => hardirqs' = [hardirqs EXCEPT ![ThisCpu] = entry.hw]

\* C20: when ipipe_stall_root, ipipe_test_and_stall_root, ipipe_test_root or
\* ipipe_raise_irq returns, the hardware interrupt flag of the local CPU has
\* the value it had when the call began, enabled or disabled, and the flags
\* of the other CPUs are untouched.
C20_MaskNesting == [][C20_Act]_vars

\* ipipe_test_root was called with hardware interrupts off and root stalled
\* and returned 1 with hardware interrupts off.
C20_Witness ==
    /\ rpc = "idle"
    /\ rret = <<TRUE>>
    /\ ~hardirqs[ThisCpu]
    /\ stalled["root"]

(***************************************************************************)
(* Properties of the interrupt line configuration (specification SpecCfg). *)
(***************************************************************************)
MuterCalls(log) == {k \in 1..Len(log) : log[k].op \in {"muter_enable", "muter_disable"}}

\* C24: for an IRQ number that has no descriptor, __ipipe_enable_irqdesc and
\* __ipipe_disable_irqdesc both return without calling the interrupt
\* controller muter.
C24_SparseNoop ==
    (/\ hwlog # <<>>
     /\ hwlog[1].op \in {"enable_irqdesc", "disable_irqdesc"}
     /\ hwlog[1].irq \notin irq_desc)
    => MuterCalls(hwlog) = {}

ChipCalls(log) == {k \in 1..Len(log) : log[k].op = "irq_set_affinity"}

Warns(log, site) == \E k \in 1..Len(log) : log[k].op = "warn" /\ log[k].dom = site

C25_Act ==
    (hwlog' # hwlog /\ hwlog'[1].op = "set_irq_affinity") =>
        LET requested == hwlog'[1].mask
            irq == hwlog'[1].irq
        IN  IF ~chip_affinity
            THEN /\ ChipCalls(hwlog') = {}
                 /\ Warns(hwlog', "no_affinity") \/ "no_affinity" \in warned
            ELSE IF requested \cap online = {}
            THEN /\ ChipCalls(hwlog') = {}
                 /\ Warns(hwlog', "empty_mask") \/ "empty_mask" \in warned
            ELSE /\ Cardinality(ChipCalls(hwlog')) = 1
                 /\ hwlog'[2] = Hw("irq_set_affinity", "-", irq, requested \cap online)

GatePos == {"watch", "notify", "irqoff", "mayday", "rootp", "irqon", "out"}

\* A statement of __ipipe_syscall_root is executed.
GateStep == upc \in GatePos /\ upc' # upc

Unwatched == (__NR_SYSCALL_BASE + scno) \notin watched

C21_Act ==
    (GateStep /\ Unwatched) =>
        /\ glog' = glog
        /\ mayday' = mayday
        /\ root_p' = root_p
        /\ stalled' = stalled
        /\ hardirqs' = hardirqs
        /\ pend' = pend
        /\ trace' = trace
        /\ (upc' = "ret" => sysret' = 0 /\ r7' = orig_r7)
        /\ upc' \in {"out", "ret"}

\* C21: a syscall whose number is not watched for the current task goes
\* through __ipipe_syscall_root without any domain or trap notification and
\* without a change of a stall flag or of the hardware interrupt state, and
\* the call returns 0 with r7 restored.
C21_FastPath == [][C21_Act]_vars

C21_Witness ==
    /\ upc = "ret"
    /\ Unwatched
    /\ watched # {}
    /\ mayday
    /\ sysret = 0
    /\ r7 = orig_r7

\* C22: a watched syscall returns the negated verdict of the domains when
\* the CPU is in the root domain at the gateway's domain test (0 when every
\* domain declined, positive for a claim without tail work, negative for a
\* claim with tail work), and a positive value when the CPU is not in the
\* root domain there.
C22_Outcome ==
    (upc = "ret" /\ ~Unwatched) =>
        /\ ~root_p => sysret > 0
        /\ root_p => /\ sysret = -nret
                     /\ (nret = 0 <=> sysret = 0)
                     /\ (nret < 0 <=> sysret > 0)
                     /\ (nret > 0 <=> sysret < 0)

C22_Witness ==
    /\ upc = "ret"
    /\ ~Unwatched
    /\ ~root_p
    /\ nret = 1
    /\ sysret = 1

\* The task goes back to user mode: end of a syscall, or end of an interrupt
\* that was taken in user mode.
ReturnsToUser ==
    \/ upc = "ret" /\ upc' = "user"
    \/ upc = "user" /\ upc' = "user" /\ trace' # trace

\* C23 as stated: user space never resumes with PF_MAYDAY still set.
C23_NeverDelayed == [][ReturnsToUser => ~mayday']_vars

Delivered == glog' = Append(glog, "mayday") /\ ~mayday'

C23_Act ==
    /\ (upc = "mayday" /\ upc' # upc /\ mayday) => Delivered
    /\ (upc = "user" /\ upc' = "user" /\ trace' # trace) =>
            /\ ~mayday'
            /\ mayday => Delivered
    /\ (mayday /\ ~mayday') => Delivered
    /\ (glog' # glog /\ upc' # "watch" /\ upc # "notify") =>
            Delivered /\ upc \in {"mayday", "user"}

\* C23 amended: PF_MAYDAY found set by the check of a watched syscall (after
\* the domain notification, hardware interrupts off) or at the exit of an
\* interrupt taken in user mode is cleared and IPIPE_TRAP_MAYDAY delivered
\* before user space resumes; the flag is cleared and the trap delivered
\* nowhere else (not on the fast path of an unwatched syscall, not at the
\* exit of an interrupt taken in kernel mode).
C23_MaydayAtChecks == [][C23_Act]_vars

C23_Witness ==
    /\ upc = "rootp"
    /\ ~mayday
    /\ Len(glog) = 2
    /\ glog[2] = "mayday"


(***************************************************************************)
(* Further properties of the virtual-NMI broadcast (SpecVnmi, FairVnmi,    *)
(* FairVnmiMasked).                                                        *)
(***************************************************************************)
\* CPU t is inside the read-side critical section of __ipipe_do_vnmi with a
\* pointer to the descriptor of CPU s.
RefersTo(t, s) == t \in data_lock.r /\ vdata[t] = s

\* The descriptor of s is alive and published.
FrameLive(s) == spc[s] \in {"ipi", "wait", "withdraw"}

\* C27: whenever a CPU is inside the read-side critical section of
\* __ipipe_do_vnmi with a pointer to a sender's descriptor, that sender has
\* not passed the withdrawal; so once __ipipe_send_vnmi has returned no CPU
\* uses its descriptor.
C27_NoUseAfterReturn ==
    \A s, t \in CPUs : RefersTo(t, s) => FrameLive(s)

\* The target has cleared its bit and still holds the reader lock: the
\* sender's withdrawal has to wait.
C27_Witness ==
    \E s, t \in CPUs :
       /\ spc[s] = "withdraw"
       /\ desc[s] = {}
       /\ RefersTo(t, s)
       /\ vpc[t] = "runlock"

Returns(c) == spc[c] # "ret" /\ spc'[c] = "ret"

C28_Act ==
    \A c \in CPUs :
        Returns(c) => /\ vnmi_lock' = NoCpu
                      /\ vnmi_lock = c
                      /\ hardirqs'[c] = sentry[c]

\* C28: under the scheduling of FairVnmi every call of __ipipe_send_vnmi
\* returns; at the return the caller has released __ipipe_vnmi.lock and its
\* hardware interrupt state is the one it entered with.
C28_Returns ==
    /\ [][C28_Act]_vars
    /\ \A c \in CPUs : (spc[c] = "trylock") ~> (spc[c] = "ret")

C28_Witness ==
    \E c \in CPUs :
       /\ spc[c] = "ret"
       /\ ~sentry[c]
       /\ ~hardirqs[c]
       /\ \E t \in CPUs : ran[c][t] = 1

EmptyCall(c) == spc[c] # "idle" /\ Targets(c) = {}

C29_Inv ==
    \A c \in CPUs :
        EmptyCall(c) => /\ vnmi_data # c
                        /\ ran[c] = NoRuns
                        /\ spc[c] \in {"trylock", "locked", "ret"}

C29_Act ==
    \A c \in CPUs :
        (EmptyCall(c) /\ spc'[c] # spc[c]) =>
            /\ ipi' = ipi
            /\ vnmi_data' = vnmi_data
            /\ spc[c] = "locked" => /\ spc'[c] = "ret"
                                    /\ vnmi_lock' = NoCpu
                                    /\ hardirqs'[c] = sentry[c]

\* C29: a call of __ipipe_send_vnmi whose mask is empty once the caller is
\* removed never publishes its descriptor, sends no IPI, has fn run nowhere,
\* and from the lock goes straight to the return, releasing the lock and
\* restoring the hardware interrupt state.
C29_EmptyTargets == [](C29_Inv) /\ [][C29_Act]_vars

C29_Witness ==
    \E c \in CPUs :
       /\ spc[c] = "ret"
       /\ req[c] = {c}
       /\ ~hardirqs[c]
       /\ vnmi_lock = NoCpu

\* CPU c executes the test of __ipipe_do_vnmi.
Tests(c) == vpc[c] = "test" /\ vpc'[c] # "test"

C30_Act ==
    /\ \A c \in CPUs :
          (Tests(c) /\ (vnmi_data = NoCpu \/ c \notin desc[vnmi_data])) =>
              /\ ran' = ran
              /\ desc' = desc
              /\ vpc'[c] = "runlock"
    /\ \A s, t \in CPUs :
          (t # s /\ t \in desc[s] /\ t \notin desc'[s]) =>
              /\ vpc[t] = "clear" /\ vpc'[t] = "runlock"
              /\ vdata[t] = s
              /\ ran[s][t] = 1
              /\ desc'[s] = desc[s] \ {t}

\* C30: a CPU that enters __ipipe_do_vnmi while no descriptor is published,
\* or while its bit is not set in the published mask, runs no function and
\* changes no mask; the bit of a target is cleared only by a step of that
\* target, after fn has run on it, and that step clears no other bit.
C30_OwnBitOnly == [][C30_Act]_vars

\* A target served from its retry loop takes the IPI after the withdrawal
\* and finds no descriptor.
C30_Witness ==
    \E s, t \in CPUs :
       /\ vpc[t] = "runlock" /\ inirq[t] /\ vdata[t] = NoCpu
       /\ spc[s] \in {"unlock", "ret"} /\ ran[s][t] = 1


\* CPU t is a target of the published broadcast of s and runs with hardware
\* interrupts disabled (not merely inside the IPI handler).
TargetedMasked(s, t) ==
    /\ vnmi_data = s
    /\ t \in desc[s]
    /\ ~hardirqs[t] /\ ~inirq[t]

Completed(s, t) == spc[s] = "ret" /\ ran[s][t] = 1

CanServe(u) == hardirqs[u] \/ spc[u] = "trylock" \/ vpc[u] # "none"

\* Outside the IPI handler __ipipe_do_vnmi is entered only from the retry
\* loop of __ipipe_send_vnmi, with hardware interrupts disabled.
C26_Act ==
    \A t \in CPUs :
        (vpc[t] = "none" /\ vpc'[t] = "rlock" /\ ~inirq'[t]) =>
            (spc[t] = "trylock" /\ ~hardirqs[t])

IrqStep == upc' = upc /\ trace' # trace

\* The step issues a trap notification.
TrapStep == glog' # glog /\ upc' # "watch" /\ upc # "notify"

C33_Act ==
    /\ TrapStep => glog' = Append(glog, "mayday") /\ ~mayday'
    /\ (upc = "mayday" /\ upc' # upc) => (TrapStep <=> mayday)
    /\ (IrqStep /\ upc = "user") => (TrapStep <=> (mayday \/ mreq'))
    /\ (IrqStep /\ upc # "user") => /\ ~TrapStep
                                   /\ mayday' = (mayday \/ mreq')
    /\ (mayday' /\ ~mayday) => IrqStep /\ mreq'

\* C33: each trap notification of __ipipe_syscall_root and __ipipe_exit_irq is
\* a single IPIPE_TRAP_MAYDAY issued with PF_MAYDAY already cleared; the
\* syscall check notifies exactly when it finds the flag set, the exit of an
\* interrupt taken in user mode exactly when the flag is set (before or by
\* the interrupt's handlers), and the exit of an interrupt taken in kernel
\* mode notifies nothing and leaves the flag set.
C33_MaydayOnce == [][C33_Act]_vars

\* After the syscall check has delivered one mayday, an interrupt taken in
\* the kernel raised the flag again and it was left set.
C33_Witness ==
    /\ upc = "out"
    /\ mayday /\ mreq
    /\ Len(glog) = 2
    /\ glog[2] = "mayday"


(***************************************************************************)
(* Properties of the tick register snapshot (specification SpecTick).      *)
(***************************************************************************)
\* The interrupt taken by an IrqStep.
TakenIrq == trace'[Len(trace) + 1].irq

C32_Act ==
    IrqStep =>
        IF hrtimer_irq = -1 \/ TakenIrq = hrtimer_irq
        THEN /\ tick_regs'.pc = upc
             /\ ~root_p => tick_regs'.cpsr_i
             /\ root_p => (tick_regs'.cpsr_i <=> ~hardirqs[ThisCpu])
        ELSE tick_regs' = tick_regs

\* C32: __ipipe_grab_irq writes tick_regs (the interrupted pc and status) only
\* for the registered hrtimer interrupt, or for every interrupt when none is
\* registered; another interrupt leaves tick_regs as it was; and a snapshot
\* taken while the current domain is not root has the interrupt-disable bit
\* set.  Nothing else writes tick_regs.
C32_TickRegs == [][C32_Act /\ (tick_regs' # tick_regs => IrqStep)]_vars

\* A non-timer interrupt arrived after a tick taken outside the root domain:
\* the snapshot still shows the tick, taken in user mode with the bit forced.
C32_Witness ==
    /\ hrtimer_irq = 5
    /\ Len(trace) >= 2
    /\ trace[Len(trace)] = Ev("handler", "head", 7)
    /\ tick_regs = [cpsr_i |-> TRUE, pc |-> "user"]
    /\ upc = "ret"
    /\ root_p


(***************************************************************************)
(* Properties of the internal IPIs (specification SpecIpi).                *)
(***************************************************************************)
Hooked(d, v) ==
    /\ control[d][v] = {IPIPE_HANDLE_MASK, IPIPE_STICKY_MASK}
    /\ ipi_irqs[d][v].ackfn = "NULL"

\* Index of a domain in the pipeline.
Prio(d) == CHOOSE k \in 1 .. Len(Pipeline) : Pipeline[k] = d

\* Events the step appends to the trace.
AppendedEvents == {trace'[k] : k \in (Len(trace) + 1) .. Len(trace')}

\* The step is __ipipe_hook_critical_ipi(d).
HookStep(d) == control'[d] # control[d] \/ ipi_irqs'[d] # ipi_irqs[d]

\* The step takes the internal IPI v.
IpiStep(v) == Len(trace') > Len(trace) /\ trace'[Len(trace) + 1] = Ev("ipi", "-", v)

C31_Act ==
    /\ \A d \in Domains : HookStep(d) =>
          \A v \in InternalIpis :
             /\ control'[d][v] = {IPIPE_HANDLE_MASK, IPIPE_STICKY_MASK}
             /\ ipi_irqs'[d][v] = [ackfn |-> "NULL", handler |-> InternalHandler(v),
                                   cookie |-> "NULL"]
    /\ \A v \in InternalIpis :
          /\ IpiStep(v) => \A e \in AppendedEvents : e.ev # "ack"
          /\ \A d, l \in Domains :
                (Hooked(d, v) /\ Prio(l) > Prio(d) /\ ~InLog(pend[l], v)) =>
                    /\ \A e \in AppendedEvents : ~(e.irq = v /\ e.dom = l)
                    /\ ~InLog(pend'[l], v)
          /\ (IpiStep(v) /\ Hooked(Pipeline[1], v)) =>
                IF stalled[Pipeline[1]]
                THEN /\ InLog(pend'[Pipeline[1]], v)
                     /\ AppendedEvents = {Ev("ipi", "-", v)}
                ELSE /\ pend' = pend
                     /\ AppendedEvents = {Ev("ipi", "-", v), Ev("handler", Pipeline[1], v)}

\* C31: __ipipe_hook_critical_ipi leaves both internal IPIs of the domain with
\* control HANDLE|STICKY, their handler and no ack callback; an internal IPI
\* is never acknowledged, and an IPI taken once a domain has hooked it is
\* neither handled nor logged by a lower-priority domain, whether the hooking
\* domain is stalled (the IPI waits in its log) or not (its handler runs at
\* once).
C31_InternalIpis == [][C31_Act]_vars

\* Both IPIs wait in the log of the stalled hooking domain; the root domain
\* below is unstalled, was hooked to handle them, and has seen none.
C31_Witness ==
    /\ stalled["head"] /\ ~stalled["root"]
    /\ \A v \in InternalIpis : Hooked("head", v) /\ InLog(pend["head"], v)
    /\ \A v \in InternalIpis : IPIPE_HANDLE_MASK \in control["root"][v]
    /\ pend["root"] = <<>>
    /\ \A k \in 1 .. Len(trace) : trace[k].dom # "root"


(***************************************************************************)
(* Properties of the preemptible mm switch (specification SpecMm).         *)
(***************************************************************************)
\* An interrupted switch is outstanding: active_mm is NULL.
C34_Inv == tif_mmswitch => active_mm = NoMm

C34_Act ==
    /\ (mpc = "idle" /\ mpc' # "idle") => active_mm' = NoMm
    /\ (mpc = "switch" /\ mpc' # mpc) => active_mm = NoMm
    /\ (mpc = "test" /\ mpc' # mpc /\ tif_mmswitch) =>
            /\ mpc' = "restore_loop"
            /\ active_mm' = active_mm
            /\ ~tif_mmswitch'
    /\ (mpc = "restore_loop" /\ mpc' # mpc) => mpc' = "switch"
    /\ (active_mm' # active_mm /\ mpc # "idle") =>
            /\ mpc = "test" /\ mpc' = "restore_ret"
            /\ ~tif_mmswitch
            /\ ~hardirqs[ThisCpu] /\ ~hardirqs'[ThisCpu]
    /\ (mpc # "idle" /\ mpc' = "idle") => ~tif_mmswitch'

====
